---- MODULE Spec2Model ----
(***************************************************************************)
(* Options flow collection: the snapshot store (options_database.py), the  *)
(* collector (options_collector.py), the flow calculator                   *)
(* (flow_calculator.py), the backfill drivers and the serving route that   *)
(* reads aggregates (api_routes.py).                                       *)
(*                                                                         *)
(* Numbers.  Python floats are modelled as exact fractions [n, d] in       *)
(* lowest terms (d > 0); float('inf') is the fraction 1/0.  Deltas of the  *)
(* model are multiples of 1/4 and volumes are small integers, so every     *)
(* product and sum is exact in binary floating point as well.              *)
(***************************************************************************)
EXTENDS Integers, Sequences, FiniteSets, TLC

\* ------------------------------------------------------------------ bounds
MaxTime == 1
MaxCycles == 1
MaxRuns == 2

\* ------------------------------------------------------- program constants
max_retries == 3
BaseDelayMs == 100
DefaultLimit == 1000

Symbols == {"A", "B"}
Procs == {"col", "bf", "srv"}
Times == 0..MaxTime

\* ---------------------------------------------------------------- numbers
Abs(x) == IF x < 0 THEN -x ELSE x

RECURSIVE GCD(_, _)
GCD(a, b) == IF b = 0 THEN a ELSE GCD(b, a % b)

Frac(n, d) ==
    LET g == GCD(Abs(n), d)
    IN  IF n = 0 THEN [n |-> 0, d |-> 1] ELSE [n |-> n \div g, d |-> d \div g]

Infinity == [n |-> 1, d |-> 0]
Zero == [n |-> 0, d |-> 1]

\* What a / b leaves when b is 0: Python raises ZeroDivisionError.
ZeroDivisionError == [n |-> 0, d |-> 0]

\* a / b for a divisor that is not negative
Divide(a, b) == IF b = 0 THEN ZeroDivisionError ELSE Frac(a, b)

RECURSIVE Pow(_, _)
Pow(b, e) == IF e = 0 THEN 1 ELSE b * Pow(b, e - 1)

\* nearest integer to a / b (b > 0), ties to the even neighbour
RoundHalfEven(a, b) ==
    LET q == a \div b
        r == a % b
    IN  IF 2 * r < b THEN q
        ELSE IF 2 * r > b THEN q + 1
        ELSE IF q % 2 = 0 THEN q ELSE q + 1

\* Python's round(x, digits) on a float
Round(x, digits) ==
    IF x.d = 0 THEN x
    ELSE Frac(RoundHalfEven(x.n * Pow(10, digits), x.d), Pow(10, digits))

\* ------------------------------------------------------ chain documents
\* A contract of the chain: the side, the expiration key and the strike key.
\* The expiration key is "<date>:<days>", modelled as the pair <<date, days>>.
CallOf == [option_type |-> "CALL", expiry |-> <<"d1", 2>>, strike |-> 1]
PutOf  == [option_type |-> "PUT",  expiry |-> <<"d1", 2>>, strike |-> 1]

Contracts == {CallOf, PutOf}

\* The fields of one contract as the upstream sends them: delta in quarters
\* (delta = delta4 / 4); null holds the names of the keys whose value is
\* JSON null (None).  A key that is missing reads as its default, 0.
Quote0 ==
    [ mark |-> 0, bid |-> 0, ask |-> 0, last |-> 0,
      totalVolume |-> 0, openInterest |-> 0,
      delta4 |-> 0, gamma |-> 0, theta |-> 0, vega |-> 0, rho |-> 0,
      volatility |-> 0, null |-> {} ]

Opt(d4, v, oi) ==
    [Quote0 EXCEPT !.delta4 = d4, !.totalVolume = v, !.openInterest = oi]

Doc(u, c, p) == [underlying |-> u, opts |-> (CallOf :> c) @@ (PutOf :> p)]

\* The documents the upstream collaborator may return.
Chains ==
    { Doc(100, Opt(1, 1, 2), Opt(-2, 1, 1)),
      Doc(101, Opt(2, 3, 0), Opt(-2, 0, 3)) }

\* ------------------------------------------------------------ flow maths
RECURSIVE SumF(_, _)
SumF(f, S) ==
    IF S = {} THEN 0
    ELSE LET x == CHOOSE y \in S : TRUE IN f[x] + SumF(f, S \ {x})

RECURSIVE SetToSeq(_)
SetToSeq(S) ==
    IF S = {} THEN <<>>
    ELSE LET x == CHOOSE y \in S : TRUE IN <<x>> \o SetToSeq(S \ {x})

\* The derived metrics both paths compute from the four running sums
\* (delta volumes in quarters).
\* Variant: the division without its guard.
DeltaRatioUnguarded(call_dv4, put_dv4) == Divide(call_dv4, put_dv4)

\* call_delta_volume / put_delta_volume if put_delta_volume > 0
\* else float('inf')
DeltaRatio(call_dv4, put_dv4) ==
    IF put_dv4 > 0 THEN Divide(call_dv4, put_dv4) ELSE Infinity

\* put_volume / call_volume if call_volume > 0 else float('inf'); the same
\* expression gives put_call_oi_ratio from the two open interests.
PutCallRatio(put_v, call_v) ==
    IF call_v > 0 THEN Divide(put_v, call_v) ELSE Infinity

Sentiment(net_dv4) == IF net_dv4 > 0 THEN "Bullish" ELSE "Bearish"

SentimentStrength(call_dv4, put_dv4) ==
    IF call_dv4 + put_dv4 > 0
    THEN Divide(Abs(call_dv4 - put_dv4), call_dv4 + put_dv4)
    ELSE Zero

\* ---------------------------------------------- change-detection cache
OptionKey(symbol, c) == <<symbol, c.expiry, c.strike, c.option_type>>

\* The digest is taken over the identity and the key fields; md5 is
\* modelled as injective on the hashed string.
KeyFields ==
    << "mark", "bid", "ask", "last", "totalVolume", "openInterest",
       "delta4", "gamma", "theta", "vega", "volatility" >>

\* str(value) of one key field: "None" for a null
KeyField(o, f) == IF f \in o.null THEN <<"None", 0>> ELSE <<"", o[f]>>

GetOptionHash(symbol, c, o) ==
    <<symbol, c.expiry, c.strike, c.option_type,
      [i \in 1..Len(KeyFields) |-> KeyField(o, KeyFields[i])]>>

NoHash == <<>>

\* cache: a function from the option keys seen so far to their last digest
LastHash(cache, k) == IF k \in DOMAIN cache THEN cache[k] ELSE NoHash

ShouldStore(enabled, cache, symbol, c, o) ==
    /\ enabled
    /\ LastHash(cache, OptionKey(symbol, c)) # GetOptionHash(symbol, c, o)

\* self.last_option_hashes after _should_store_option_record
CacheAfter(enabled, cache, symbol, c, o) ==
    IF ShouldStore(enabled, cache, symbol, c, o)
    THEN (OptionKey(symbol, c) :> GetOptionHash(symbol, c, o)) @@ cache
    ELSE cache

\* ----------------------------------------------------------- collector
ExpirationDate(expiry) == expiry[1]

\* The columns of the record that option_data.get(key) leaves None; the
\* record keeps 0 in their place.
NullColumns(o) ==
    {col_key[1] : col_key \in
        {ck \in {<<"total_volume", "totalVolume">>,
                 <<"open_interest", "openInterest">>,
                 <<"delta4", "delta4">>} : ck[2] \in o.null}}

CreateOptionRecord(symbol, timestamp, c, o, underlying) ==
    [ symbol |-> symbol, timestamp |-> timestamp,
      option_type |-> c.option_type,
      expiration_date |-> ExpirationDate(c.expiry),
      strike_price |-> c.strike,
      total_volume |-> IF "totalVolume" \in o.null THEN 0 ELSE o.totalVolume,
      open_interest |->
          IF "openInterest" \in o.null THEN 0 ELSE o.openInterest,
      delta4 |-> IF "delta4" \in o.null THEN 0 ELSE o.delta4,
      underlying_price |-> underlying,
      null |-> NullColumns(o) ]

Side(doc, t) == {c \in DOMAIN doc.opts : c.option_type = t}

\* "volume > 0" on a null volume, or "delta * volume" on a null delta,
\* raises TypeError out of _calculate_option_metrics.
MetricsTypeError(doc) ==
    \E c \in DOMAIN doc.opts :
        \/ "totalVolume" \in doc.opts[c].null
        \/ doc.opts[c].totalVolume > 0 /\ "delta4" \in doc.opts[c].null

\* Variant: only the contracts the cache lets through enter the sums.
SummedIfChanged(doc, changed) == changed

\* The contracts that enter the sums: all of the document.
Summed(doc, changed) == DOMAIN doc.opts

\* One pass over the document: the four sums, the records the cache lets
\* through and the cache afterwards.
CalculateOptionMetrics(symbol, doc, enabled, cache, timestamp) ==
    LET changed == {c \in DOMAIN doc.opts :
                      ShouldStore(enabled, cache, symbol, c, doc.opts[c])}
        counts(c) == c \in Summed(doc, changed) /\ doc.opts[c].totalVolume > 0
        dv(absolute) == [c \in DOMAIN doc.opts |->
                IF counts(c)
                THEN (IF absolute THEN Abs(doc.opts[c].delta4)
                      ELSE doc.opts[c].delta4) * doc.opts[c].totalVolume
                ELSE 0]
        vol == [c \in DOMAIN doc.opts |->
                IF counts(c) THEN doc.opts[c].totalVolume ELSE 0]
    IN  [ call_dv4 |-> SumF(dv(FALSE), Side(doc, "CALL")),
          put_dv4  |-> SumF(dv(TRUE), Side(doc, "PUT")),
          call_vol |-> SumF(vol, Side(doc, "CALL")),
          put_vol  |-> SumF(vol, Side(doc, "PUT")),
          underlying |-> doc.underlying,
          raw_records |->
              LET rec(c) == CreateOptionRecord(symbol, timestamp, c,
                                               doc.opts[c], doc.underlying)
              IN  SetToSeq({rec(c) : c \in changed \cap Side(doc, "CALL")})
                  \o SetToSeq({rec(c) : c \in changed \cap Side(doc, "PUT")}),
          cache |-> [k \in DOMAIN cache \cup
                            {OptionKey(symbol, c) : c \in changed} |->
                       IF \E c \in changed : OptionKey(symbol, c) = k
                       THEN LET c == CHOOSE x \in changed :
                                        OptionKey(symbol, x) = k
                            IN  GetOptionHash(symbol, c, doc.opts[c])
                       ELSE cache[k]] ]

CountOptionsInData(doc) == Cardinality(DOMAIN doc.opts)

CalculateFlowMetrics(symbol, doc, enabled, cache, timestamp) ==
    LET m == CalculateOptionMetrics(symbol, doc, enabled, cache, timestamp)
    IN  [ call_delta_volume |-> Frac(m.call_dv4, 4),
          put_delta_volume |-> Frac(m.put_dv4, 4),
          net_delta_volume |-> Frac(m.call_dv4 - m.put_dv4, 4),
          delta_ratio |-> DeltaRatio(m.call_dv4, m.put_dv4),
          call_volume |-> m.call_vol,
          put_volume |-> m.put_vol,
          total_volume |-> m.call_vol + m.put_vol,
          put_call_ratio |-> PutCallRatio(m.put_vol, m.call_vol),
          underlying_price |-> m.underlying,
          sentiment |-> Sentiment(m.call_dv4 - m.put_dv4),
          sentiment_strength |-> SentimentStrength(m.call_dv4, m.put_dv4),
          total_records |-> CountOptionsInData(doc),
          raw_records |-> m.raw_records,
          cache |-> m.cache ]

\* The aggregate row store_aggregated_data builds from the metrics.
CollectorAggregation(symbol, timestamp, m) ==
    [ symbol |-> symbol, timestamp |-> timestamp,
      call_delta_volume |-> m.call_delta_volume,
      put_delta_volume |-> m.put_delta_volume,
      net_delta_volume |-> m.net_delta_volume,
      delta_ratio |-> m.delta_ratio,
      call_volume |-> m.call_volume,
      put_volume |-> m.put_volume,
      total_volume |-> m.total_volume,
      call_open_interest |-> 0,
      put_open_interest |-> 0,
      total_open_interest |-> 0,
      put_call_ratio |-> m.put_call_ratio,
      put_call_oi_ratio |-> Zero,
      underlying_price |-> m.underlying_price,
      sentiment |-> m.sentiment,
      sentiment_strength |-> m.sentiment_strength,
      total_records |-> m.total_records,
      collection_timestamp |-> timestamp ]

\* ------------------------------------------------------ flow calculator
\* rows: the stored rows of one (symbol, timestamp), as a set; the rows of
\* one snapshot carry one underlying price.
Falsy(r, column) == column \in r.null \/ r[column] = 0

\* The accumulation loop: the running sums when the last row is done
\* (delta volumes in quarters).
FlowSums(rows) ==
    LET counted(r) == /\ ~Falsy(r, "delta4")
                      /\ ~Falsy(r, "total_volume")
                      /\ r.total_volume > 0
        dv == [r \in rows |->
                 IF counted(r) THEN Abs(r.delta4) * r.total_volume ELSE 0]
        cdv == [r \in rows |->
                 IF counted(r) THEN r.delta4 * r.total_volume ELSE 0]
        vol == [r \in rows |-> IF counted(r) THEN r.total_volume ELSE 0]
        oi == [r \in rows |->
                 IF Falsy(r, "open_interest") THEN 0 ELSE r.open_interest]
        calls == {r \in rows : r.option_type = "CALL"}
        puts == {r \in rows : r.option_type = "PUT"}
        priced == {r \in rows : r.underlying_price # 0}
    IN  [ call_dv4 |-> SumF(cdv, calls),
          put_dv4 |-> SumF(dv, puts),
          call_vol |-> SumF(vol, calls),
          put_vol |-> SumF(vol, puts),
          call_oi |-> SumF(oi, calls),
          put_oi |-> SumF(oi, puts),
          underlying |-> IF priced = {} THEN 0
                         ELSE (CHOOSE r \in priced : TRUE).underlying_price ]

\* The derived metrics and the rounding of the returned dictionary.
FlowMetrics(symbol, rows) ==
    LET m == FlowSums(rows)
    IN  [ call_delta_volume |-> Round(Frac(m.call_dv4, 4), 0),
          put_delta_volume |-> Round(Frac(m.put_dv4, 4), 0),
          net_delta_volume |-> Round(Frac(m.call_dv4 - m.put_dv4, 4), 0),
          delta_ratio |-> Round(DeltaRatio(m.call_dv4, m.put_dv4), 2),
          call_volume |-> m.call_vol,
          put_volume |-> m.put_vol,
          total_volume |-> m.call_vol + m.put_vol,
          call_open_interest |-> m.call_oi,
          put_open_interest |-> m.put_oi,
          total_open_interest |-> m.call_oi + m.put_oi,
          put_call_oi_ratio |-> Round(PutCallRatio(m.put_oi, m.call_oi), 2),
          put_call_ratio |-> Round(PutCallRatio(m.put_vol, m.call_vol), 2),
          underlying_price |-> m.underlying,
          sentiment |-> Sentiment(m.call_dv4 - m.put_dv4),
          sentiment_strength |->
              Round(SentimentStrength(m.call_dv4, m.put_dv4), 3),
          total_records |-> Cardinality(rows),
          data_available |-> Cardinality(rows) > 0 ]

\* _empty_flow_result(symbol)
EmptyFlowResult(symbol) ==
    [ call_delta_volume |-> Zero, put_delta_volume |-> Zero,
      net_delta_volume |-> Zero, delta_ratio |-> Zero,
      call_volume |-> 0, put_volume |-> 0, total_volume |-> 0,
      call_open_interest |-> 0, put_open_interest |-> 0,
      total_open_interest |-> 0,
      put_call_oi_ratio |-> Zero, put_call_ratio |-> Zero,
      underlying_price |-> 0,
      sentiment |-> "No Data", sentiment_strength |-> Zero,
      total_records |-> 0, data_available |-> FALSE ]

\* calculate_current_flow(symbol): the rows of the symbol's latest
\* timestamp, or the empty result when it has none.
CalculateCurrentFlow(table, symbol) ==
    LET mine == {r \in table : r.symbol = symbol}
        latest == {r \in mine : \A q \in mine : q.timestamp <= r.timestamp}
    IN  IF latest = {} THEN EmptyFlowResult(symbol)
        ELSE FlowMetrics(symbol, latest)

\* The aggregate row calculate_and_store_aggregation builds.
BackfillAggregation(symbol, timestamp, rows) ==
    LET f == FlowMetrics(symbol, rows)
    IN  [ symbol |-> symbol, timestamp |-> timestamp,
          call_delta_volume |-> f.call_delta_volume,
          put_delta_volume |-> f.put_delta_volume,
          net_delta_volume |-> f.net_delta_volume,
          delta_ratio |-> f.delta_ratio,
          call_volume |-> f.call_volume,
          put_volume |-> f.put_volume,
          total_volume |-> f.total_volume,
          call_open_interest |-> f.call_open_interest,
          put_open_interest |-> f.put_open_interest,
          total_open_interest |-> f.total_open_interest,
          put_call_ratio |-> f.put_call_ratio,
          put_call_oi_ratio |-> f.put_call_oi_ratio,
          underlying_price |-> f.underlying_price,
          sentiment |-> f.sentiment,
          sentiment_strength |-> f.sentiment_strength,
          total_records |-> f.total_records,
          collection_timestamp |-> timestamp ]

\* --------------------------------------------------------------- store
\* UNIQUE(symbol, timestamp, option_type, expiration_date, strike_price)
RawKey(r) ==
    <<r.symbol, r.timestamp, r.option_type, r.expiration_date, r.strike_price>>

\* Variant: the aggregate key without the symbol.
TimestampOnlyKey(r) == <<r.timestamp>>

\* UNIQUE(symbol, timestamp)
AggKey(r) == <<r.symbol, r.timestamp>>

\* Variant: a table without the UNIQUE constraint.
InsertNoUnique(st, rec) ==
    [st EXCEPT !.table = @ \cup {rec}, !.inserted = @ + 1]

\* Variant: INSERT OR REPLACE on the raw table.
InsertOrReplace(st, rec) ==
    [st EXCEPT !.table = {r \in @ : RawKey(r) # RawKey(rec)} \cup {rec},
               !.inserted = @ + 1]

\* Python values a record of a caller may hold where the collector puts a
\* string: None (record.get of a missing key gives it too), and a value
\* sqlite3 cannot bind, such as a list.
None == "None"
Unsupported == "unsupported type"

\* The identity columns that hold text; all five are NOT NULL.
TextIdentity == {"symbol", "option_type", "expiration_date"}

\* cursor.execute binds the parameters before the statement runs.
Bindable(rec) == \A f \in TextIdentity : rec[f] # Unsupported

NotNullViolated(rec) == \E f \in TextIdentity : rec[f] = None

\* INSERT INTO options_data, inside try: a value that cannot be bound
\* raises an error that is logged and skipped; a NOT NULL or UNIQUE
\* violation raises IntegrityError, which is counted as a duplicate.
InsertOne(st, rec) ==
    IF ~Bindable(rec)
    THEN st
    ELSE IF NotNullViolated(rec)
            \/ \E r \in st.table : RawKey(r) = RawKey(rec)
    THEN [st EXCEPT !.duplicates = @ + 1]
    ELSE [st EXCEPT !.table = @ \cup {rec}, !.inserted = @ + 1]

RECURSIVE InsertLoop(_, _)
InsertLoop(st, recs) ==
    IF recs = <<>> THEN st
    ELSE InsertLoop(InsertOne(st, Head(recs)), Tail(recs))

\* _insert_records: the whole batch inside one transaction
InsertRecords(table, recs) ==
    InsertLoop([table |-> table, inserted |-> 0, duplicates |-> 0], recs)

\* options_flow_agg: symbol TEXT NOT NULL, timestamp INTEGER NOT NULL, with
\* no default.
AggNotNullViolated(row) == row.symbol = None

\* Variant: a plain INSERT that never finds a conflict.
NoConflict(table, row) == {}

\* Variant: a plain INSERT, whose conflict aborts the statement with an
\* IntegrityError.
OnConflictAbort == "ABORT"

\* INSERT OR REPLACE INTO options_flow_agg
OnConflict == "REPLACE"

\* The rows in conflict with the new row: INSERT OR REPLACE deletes them,
\* then inserts the new row.
Conflicting(table, row) == {r \in table : AggKey(r) = AggKey(row)}

\* SELECT * FROM options_flow_agg WHERE symbol = ? AND timestamp >= ?
\* AND timestamp <= ? ORDER BY timestamp DESC [LIMIT ?]
RECURSIVE NewestFirst(_)
NewestFirst(S) ==
    IF S = {} THEN <<>>
    ELSE LET x == CHOOSE y \in S : \A z \in S : z.timestamp <= y.timestamp
         IN  <<x>> \o NewestFirst(S \ {x})

\* limit: Optional[int] -- <<>> for None, <<n>> for the integer n.
NoLimit == <<>>
Limit(n) == <<n>>

\* "if limit:" -- None and 0 are both false.
Truthy(limit) == limit # NoLimit /\ limit[1] # 0

\* With "LIMIT ?" the first n rows; a negative n is no limit to SQLite.
GetFlowAgg(table, symbol, start, end, limit) ==
    LET all == NewestFirst({r \in table : /\ r.symbol = symbol
                                          /\ r.timestamp >= start
                                          /\ r.timestamp <= end})
    IN  IF Truthy(limit) /\ limit[1] >= 0 /\ Len(all) > limit[1]
        THEN SubSeq(all, 1, limit[1])
        ELSE all

\* --------------------------------------------------------------- state
VARIABLES
    now,    \* the clock, in milliseconds
    raw,    \* options_data, committed rows
    agg,    \* options_flow_agg, committed rows
    lock,   \* the holder of the store's write lock, or "none"
    txn,    \* the tables as the open write transaction sees them
    call,   \* per process: the store call it is in (_execute_write/_read)
    col,    \* the collector
    bf,     \* the backfill driver
    srv,    \* the serving route /chart-agg/<symbol>
    last,   \* history: per aggregate key, the upserts committed, in order
    batch,  \* the collector in watchlist mode (collect_multiple_symbols)
    unit    \* one method applied to chosen arguments, and what it gave

vars == <<now, raw, agg, lock, txn, call, col, bf, srv, last, batch, unit>>

NoTxn == [raw |-> {}, agg |-> {}]

\* What the public method hands to its caller: a value, or an exception.
Returned(v) == [raised |-> FALSE, error |-> "", value |-> v]
Raised(e) == [raised |-> TRUE, error |-> e, value |-> <<>>]
LockError == "OperationalError: database is locked"

IdleCall ==
    [ pc |-> "idle", kind |-> "none", rows |-> <<>>,
      attempt |-> 0, slept |-> <<>>, lock_errors |-> 0, commits |-> 0,
      outcome |-> "none", inserted |-> 0, duplicates |-> 0, replaced |-> {},
      result |-> <<>>, api |-> Returned(<<>>), write_conn |-> "closed" ]

BeginWrite(kind, rows) ==
    [IdleCall EXCEPT !.pc = "begin", !.kind = kind, !.rows = rows]

BeginRead == [IdleCall EXCEPT !.pc = "rbegin", !.kind = "read"]

\* insert_flow_aggregation catches every exception and returns False;
\* insert_options_data and init_database let _execute_write's error through.
ApiResult(kind, outcome, inserted, duplicates) ==
    IF kind = "agg" THEN Returned(<<outcome = "ok">>)
    ELSE IF outcome # "ok" THEN Raised(LockError)
    ELSE IF kind = "raw" THEN Returned(<<inserted, duplicates>>)
    ELSE Returned(<<>>)

\* ------------------------------------------------------ _execute_write
\* Variant: no retry after a lock error.
WriteNeverRetry(attempt) == FALSE

WriteShouldRetry(attempt) == attempt < max_retries - 1

\* Variant: a fixed delay.
WriteFixedDelay(attempt) == BaseDelayMs

\* 0.1 * (2 ** attempt) seconds, in milliseconds
WriteRetryDelay(attempt) == BaseDelayMs * Pow(2, attempt)

\* BEGIN IMMEDIATE takes the write lock.
WriteAcquire(p) ==
    /\ call[p].pc = "begin"
    /\ lock = "none"
    /\ lock' = p
    /\ txn' = [raw |-> raw, agg |-> agg]
    /\ call' = [call EXCEPT ![p].pc = "op", ![p].write_conn = "open"]
    /\ UNCHANGED <<now, raw, agg, col, bf, srv, last, batch, unit>>

\* BEGIN IMMEDIATE times out behind another writer: "database is locked".
\* Retry after the backoff sleep, or give the error up to the caller.
WriteLocked(p) ==
    /\ call[p].pc = "begin"
    /\ lock # "none"
    /\ call' = [call EXCEPT ![p] =
          IF WriteShouldRetry(call[p].attempt)
          THEN [@ EXCEPT !.attempt = @ + 1,
                         !.lock_errors = @ + 1,
                         !.slept = Append(@, WriteRetryDelay(call[p].attempt))]
          ELSE [@ EXCEPT !.pc = "returned",
                         !.lock_errors = @ + 1,
                         !.outcome = "lock_error",
                         !.api = ApiResult(call[p].kind, "lock_error", 0, 0)]]
    /\ UNCHANGED <<now, raw, agg, lock, txn, col, bf, srv, last, batch, unit>>

\* operation(conn): the statements of the operation, inside the transaction.
\* An exception of the operation rolls the transaction back and leaves
\* _execute_write at once (except Exception: conn.rollback(); raise).
WriteOp(p) ==
    /\ call[p].pc = "op"
    /\ \/ /\ call[p].kind = "init"
          /\ call' = [call EXCEPT ![p].pc = "commit"]
          /\ UNCHANGED <<txn, lock>>
       \/ /\ call[p].kind = "raw"
          /\ LET st == InsertRecords(txn.raw, call[p].rows)
             IN  /\ txn' = [txn EXCEPT !.raw = st.table]
                 /\ call' = [call EXCEPT ![p].pc = "commit",
                                         ![p].inserted = st.inserted,
                                         ![p].duplicates = st.duplicates]
          /\ UNCHANGED lock
       \/ /\ call[p].kind = "agg"
          /\ LET old == Conflicting(txn.agg, call[p].rows[1])
             IN  IF \/ AggNotNullViolated(call[p].rows[1])
                    \/ old # {} /\ OnConflict # "REPLACE"
                 THEN /\ txn' = NoTxn
                      /\ lock' = "none"
                      /\ call' = [call EXCEPT ![p] =
                            [@ EXCEPT !.pc = "returned",
                                      !.outcome = "integrity_error",
                                      !.write_conn = "closed",
                                      !.api = ApiResult(call[p].kind,
                                                "integrity_error", 0, 0)]]
                 ELSE IF old = {}
                 THEN /\ txn' = [txn EXCEPT !.agg = @ \cup {call[p].rows[1]}]
                      /\ call' = [call EXCEPT ![p].pc = "commit"]
                      /\ UNCHANGED lock
                 ELSE /\ txn' = [txn EXCEPT !.agg = @ \ old]
                      /\ call' = [call EXCEPT ![p].pc = "insert",
                                              ![p].replaced = old]
                      /\ UNCHANGED lock
    /\ UNCHANGED <<now, raw, agg, col, bf, srv, last, batch, unit>>

\* The insert half of INSERT OR REPLACE, after the conflicting row went.
WriteInsert(p) ==
    /\ call[p].pc = "insert"
    /\ txn' = [txn EXCEPT !.agg = @ \cup {call[p].rows[1]}]
    /\ call' = [call EXCEPT ![p].pc = "commit"]
    /\ UNCHANGED <<now, raw, agg, lock, col, bf, srv, last, batch, unit>>

\* Variant: the transaction is left open, the writer keeps the lock.
KeptBy(p) == p

\* The holder of the write lock after conn.commit() and the close of the
\* connection.
Unlocked(p) == "none"

\* conn.commit(); return result
WriteCommit(p) ==
    /\ call[p].pc = "commit"
    /\ raw' = txn.raw
    /\ agg' = txn.agg
    /\ lock' = Unlocked(p)
    /\ txn' = NoTxn
    /\ call' = [call EXCEPT ![p] =
          [@ EXCEPT !.pc = "returned", !.outcome = "ok", !.commits = @ + 1,
                    !.write_conn = "closed",
                    !.api = ApiResult(call[p].kind, "ok",
                                      call[p].inserted, call[p].duplicates)]]
    /\ last' = IF call[p].kind = "agg"
               THEN (AggKey(call[p].rows[1]) :> call[p].rows[1]) @@ last
               ELSE last
    /\ UNCHANGED <<now, col, bf, srv, batch, unit>>

\* An operation handed to _execute_write that changes rows and may then
\* raise: result = operation(conn).
WriteFails(p) ==
    /\ call[p].pc = "op"
    /\ call[p].kind = "raises"
    /\ LET st == InsertRecords(txn.raw, call[p].rows)
       IN  /\ txn' = [txn EXCEPT !.raw = st.table]
           /\ \E next \in {"except", "commit"} :
                 call' = [call EXCEPT ![p].pc = next,
                                      ![p].inserted = st.inserted,
                                      ![p].duplicates = st.duplicates]
    /\ UNCHANGED <<now, raw, agg, lock, col, bf, srv, last, batch, unit>>

\* What the operation may raise.
OperationError == "Exception"
OperationErrors == {OperationError, LockError}

\* Variant: the transaction is committed when the operation raises.
OnExceptionCommit == "COMMIT"

\* except Exception: conn.rollback(); raise
OnException == "ROLLBACK"

\* The exception leaves the transaction (rollback), then the connection's
\* context (finally: conn.close()), then reaches the handlers of
\* _execute_write: a lock error is retried after the backoff sleep while
\* attempts remain, every other error goes to the caller.
WriteRollback(p) ==
    /\ call[p].pc = "except"
    /\ raw' = IF OnException = "ROLLBACK" THEN raw ELSE txn.raw
    /\ agg' = IF OnException = "ROLLBACK" THEN agg ELSE txn.agg
    /\ txn' = NoTxn
    /\ lock' = "none"
    /\ \E e \in OperationErrors :
          call' = [call EXCEPT ![p] =
             IF e = LockError /\ WriteShouldRetry(call[p].attempt)
             THEN [@ EXCEPT !.pc = "begin",
                            !.write_conn = "closed",
                            !.attempt = @ + 1,
                            !.lock_errors = @ + 1,
                            !.slept =
                               Append(@, WriteRetryDelay(call[p].attempt))]
             ELSE [@ EXCEPT !.pc = "returned",
                            !.write_conn = "closed",
                            !.outcome = e,
                            !.api = Raised(e)]]
    /\ UNCHANGED <<now, col, bf, srv, last, batch, unit>>

\* ------------------------------------------------------- _execute_read
ReadShouldRetry(attempt) == attempt < max_retries - 1

ReadRetryDelay(attempt) == BaseDelayMs * Pow(2, attempt)

\* Variant: a reader that sees the open transaction's tables.
DirtyView == IF lock = "none" THEN [raw |-> raw, agg |-> agg] ELSE txn

\* What a read-only connection sees: the committed tables.
ReadView == [raw |-> raw, agg |-> agg]

\* operation(conn) of get_flow_aggregations on a read-only connection
ReadOk(p) ==
    /\ call[p].pc = "rbegin"
    /\ call' = [call EXCEPT ![p] =
          [@ EXCEPT !.pc = "returned", !.outcome = "ok",
                    !.result = GetFlowAgg(ReadView.agg, srv.symbol,
                                          srv.start, srv.end, srv.limit)]]
    /\ srv' = [srv EXCEPT !.seen = agg,
                          !.inflight = IF lock # "none" /\ call[lock].kind = "agg"
                                       THEN {call[lock].rows[1]} ELSE {}]
    /\ UNCHANGED <<now, raw, agg, lock, txn, col, bf, last, batch, unit>>

\* The read meets "database is locked" (the store is busy).
ReadLocked(p) ==
    /\ call[p].pc = "rbegin"
    /\ call' = [call EXCEPT ![p] =
          IF ReadShouldRetry(call[p].attempt)
          THEN [@ EXCEPT !.attempt = @ + 1,
                         !.lock_errors = @ + 1,
                         !.slept = Append(@, ReadRetryDelay(call[p].attempt))]
          ELSE [@ EXCEPT !.pc = "returned",
                         !.lock_errors = @ + 1,
                         !.outcome = "lock_error",
                         !.api = Raised(LockError)]]
    /\ UNCHANGED <<now, raw, agg, lock, txn, col, bf, srv, last, batch, unit>>

\* ------------------------------------------------------------ collector
\* One collector process in single-symbol mode: every cycle is
\* process_symbol(symbol).
NoMetrics == [raw_records |-> <<>>]

\* The tables a process would leave behind were it the only writer.
AloneUpsert(t, row) == (t \ Conflicting(t, row)) \cup {row}

\* collect_options_chain fails or returns nothing: nothing is written.
ColFetchNothing ==
    /\ col.pc = "idle"
    /\ col.cycle < MaxCycles
    /\ \E st \in {"error", "no_data"} :
          col' = [col EXCEPT !.cycle = @ + 1, !.status = st]
    /\ UNCHANGED <<now, raw, agg, lock, txn, call, bf, srv, last, batch, unit>>

\* Steps 1 and 2 of process_symbol: fetch the chain, calculate_flow_metrics
\* (raw records are stamped with the clock read in this pass).
ColCalculate ==
    /\ col.pc = "idle"
    /\ col.cycle < MaxCycles
    /\ \E doc \in Chains :
          LET m == CalculateFlowMetrics(col.symbol, doc, col.enabled,
                                        col.cache, now)
          IN  col' = [col EXCEPT !.pc = "store_agg", !.m = m,
                                 !.raw_ts = now, !.cache = m.cache]
    /\ UNCHANGED <<now, raw, agg, lock, txn, call, bf, srv, last, batch, unit>>

\* Step 3: store_aggregated_data reads the clock again and upserts.
ColStoreAgg ==
    /\ col.pc = "store_agg"
    /\ LET row == CollectorAggregation(col.symbol, now, col.m)
       IN  /\ call' = [call EXCEPT !["col"] = BeginWrite("agg", <<row>>)]
           /\ col' = [col EXCEPT !.pc = "wait_agg",
                                  !.alone.agg = AloneUpsert(@, row)]
    /\ UNCHANGED <<now, raw, agg, lock, txn, bf, srv, last, batch, unit>>

\* insert_flow_aggregation returned; step 4: store_raw_data.
ColStoreRaw ==
    /\ col.pc = "wait_agg"
    /\ call["col"].pc = "returned"
    /\ LET stored == call["col"].api.value[1]
           recs == col.m.raw_records
       IN  IF ~col.enabled \/ recs = <<>>
           THEN /\ col' = [col EXCEPT !.pc = "idle", !.cycle = @ + 1,
                                       !.m = NoMetrics,
                                       !.status = "success",
                                       !.agg_stored = stored,
                                       !.failed = @ \/ ~stored,
                                       !.contended =
                                           @ \/ call["col"].lock_errors > 0]
                /\ call' = [call EXCEPT !["col"] = IdleCall]
           ELSE /\ col' = [col EXCEPT !.pc = "wait_raw",
                                       !.agg_stored = stored,
                                       !.failed = @ \/ ~stored,
                                       !.agg_row = call["col"].rows[1],
                                       !.contended =
                                           @ \/ call["col"].lock_errors > 0,
                                       !.alone.raw =
                                           InsertRecords(@, recs).table]
                /\ call' = [call EXCEPT !["col"] = BeginWrite("raw", recs)]
    /\ UNCHANGED <<now, raw, agg, lock, txn, bf, srv, last, batch, unit>>

\* insert_options_data returned, or raised: the error leaves process_symbol
\* and ends the run.
ColFinish ==
    /\ col.pc = "wait_raw"
    /\ call["col"].pc = "returned"
    /\ IF call["col"].api.raised
       THEN col' = [col EXCEPT !.pc = "crashed", !.m = NoMetrics,
                               !.status = "exception", !.failed = TRUE,
                               !.contended = TRUE]
       ELSE col' = [col EXCEPT !.pc = "idle", !.cycle = @ + 1,
                               !.m = NoMetrics, !.status = "success",
                               !.contended = @ \/ call["col"].lock_errors > 0,
                               !.snap =
                                 IF /\ col.agg_stored
                                    /\ call["col"].api.value[1]
                                         = col.m.total_records
                                 THEN @ \cup {[symbol |-> col.symbol,
                                               raw_ts |-> col.raw_ts,
                                               row |-> col.agg_row]}
                                 ELSE @]
    /\ call' = [call EXCEPT !["col"] = IdleCall]
    /\ UNCHANGED <<now, raw, agg, lock, txn, bf, srv, last, batch, unit>>

\* ------------------------------------------------------------- backfill
\* SELECT DISTINCT timestamp ... ORDER BY timestamp
RECURSIVE Ascending(_)
Ascending(S) ==
    IF S = {} THEN <<>>
    ELSE LET x == CHOOSE y \in S : \A z \in S : y <= z
         IN  <<x>> \o Ascending(S \ {x})

GetTimestamps(table, symbol) ==
    Ascending({r.timestamp : r \in {x \in table : x.symbol = symbol}})

RowsOf(table, symbol) == {r \in table : r.symbol = symbol}

CheckExistingAggregations(table, symbol) ==
    Cardinality({r \in table : r.symbol = symbol})

\* The aggregates of the symbol that the run would find missing: the raw
\* timestamps without a row in options_flow_agg.
MissingTimestamps(rawt, aggt, symbol) ==
    {t \in {r.timestamp : r \in RowsOf(rawt, symbol)} :
        \A g \in RowsOf(aggt, symbol) : g.timestamp # t}

\* Variant: the dry-run flag is not looked at.
DryRunIgnored(dry_run) == FALSE

\* main(): if args.dry_run: continue
DryRunSkips(dry_run) == dry_run

\* Variant: a (symbol, date) is processed whatever is aggregated already.
NeverSkip(skip_existing, existing) == FALSE

\* main(): if existing_count > 0: continue.  skip_existing tells the two
\* drivers apart: backfill_options_aggregation.py has the test,
\* backfill_spy_aggregation.py does not.
ShouldSkip(skip_existing, existing) == skip_existing /\ existing > 0

\* What main() returns when no exception reached it.
BfExitCode(skip_existing, timestamps, successful) ==
    IF skip_existing THEN 0
    ELSE IF timestamps = <<>> \/ successful = 0 THEN 1 ELSE 0

\* The driver before it is started.  before holds the aggregate table as
\* the run before this one left it, missing the raw timestamps that had no
\* aggregate when this run began.
IdleBackfill ==
    [ pc |-> "idle", symbol |-> "", skip_existing |-> FALSE,
      dry_run |-> FALSE, run |-> 0,
      timestamps |-> <<>>, i |-> 0, successful |-> 0, failed |-> 0,
      exit |-> 0, failed_run |-> FALSE,
      before |-> {}, missing |-> {}, alone |-> {} ]

\* main(): unless it is a dry run, the driver builds its
\* OptionsFlowCalculator, whose store constructor runs init_database inside
\* a write transaction.  Only backfill_options_aggregation.py has a dry run.
BfBegin(s, skip, dry, left) ==
    /\ dry => skip
    /\ bf' = [IdleBackfill EXCEPT
                !.pc = "wait_init", !.symbol = s,
                !.skip_existing = skip, !.dry_run = dry,
                !.run = bf.run + 1,
                !.before = left,
                !.missing = MissingTimestamps(raw, agg, s),
                !.alone = {r \in agg : r.symbol = s}]
    /\ call' = [call EXCEPT !["bf"] =
          IF dry THEN IdleCall ELSE BeginWrite("init", <<>>)]
    /\ UNCHANGED <<now, raw, agg, lock, txn, col, srv, last, batch, unit>>

BfStart ==
    /\ bf.pc = "idle"
    /\ \E s \in Symbols, skip \in BOOLEAN, dry \in BOOLEAN :
          BfBegin(s, skip, dry, {})

\* The same command line, run once more after the run before it ended.
BfRerun ==
    /\ bf.pc = "done"
    /\ bf.run < MaxRuns
    /\ BfBegin(bf.symbol, bf.skip_existing, bf.dry_run, agg)

\* main(): count the aggregates, list the raw timestamps, skip or process.
BfDiscover ==
    /\ bf.pc = "wait_init"
    /\ bf.dry_run \/ call["bf"].pc = "returned"
    /\ LET ts == GetTimestamps(raw, bf.symbol)
           existing == CheckExistingAggregations(agg, bf.symbol)
       IN  IF call["bf"].api.raised
           THEN bf' = [bf EXCEPT !.pc = "done", !.exit = 1,
                                 !.failed_run = TRUE]
           ELSE IF ts = <<>>
           THEN bf' = [bf EXCEPT !.pc = "summary"]
           ELSE IF DryRunSkips(bf.dry_run)
                   \/ ShouldSkip(bf.skip_existing, existing)
           THEN bf' = [bf EXCEPT !.pc = "summary"]
           ELSE bf' = [bf EXCEPT !.pc = "next", !.timestamps = ts, !.i = 1]
    /\ call' = [call EXCEPT !["bf"] = IdleCall]
    /\ UNCHANGED <<now, raw, agg, lock, txn, col, srv, last, batch, unit>>

\* Variant: the loop is left at the first timestamp that fails.
BreakOnFailure(success, i, n) ==
    IF ~success \/ i = n THEN "summary" ELSE "next"

\* for i, timestamp in enumerate(timestamps, 1): where the loop is after
\* timestamp i of n has been counted, as a success or, by the else branch
\* or the except clause, as a failure.
LoopAfter(success, i, n) == IF i = n THEN "summary" ELSE "next"

\* calculate_and_store_aggregation(symbol, timestamps[i]): read the raw
\* rows of that timestamp, run the calculator, upsert the aggregate.
BfCalculate ==
    /\ bf.pc = "next"
    /\ LET t == bf.timestamps[bf.i]
           rows == {r \in raw : r.symbol = bf.symbol /\ r.timestamp = t}
           row == BackfillAggregation(bf.symbol, t, rows)
       IN  IF rows = {}
           THEN /\ bf' = [bf EXCEPT !.failed = @ + 1, !.i = @ + 1,
                                    !.pc = LoopAfter(FALSE, bf.i,
                                                     Len(bf.timestamps))]
                /\ UNCHANGED call
           ELSE /\ bf' = [bf EXCEPT !.pc = "wait_agg",
                                    !.alone = AloneUpsert(@, row)]
                /\ call' = [call EXCEPT !["bf"] = BeginWrite("agg", <<row>>)]
    /\ UNCHANGED <<now, raw, agg, lock, txn, col, srv, last, batch, unit>>

\* process_symbol_date counts the outcome and goes on to the next one.
BfCount ==
    /\ bf.pc = "wait_agg"
    /\ call["bf"].pc = "returned"
    /\ LET ok == call["bf"].api.value[1]
       IN  bf' = [bf EXCEPT !.successful = IF ok THEN @ + 1 ELSE @,
                            !.failed = IF ok THEN @ ELSE @ + 1,
                            !.i = @ + 1,
                            !.pc = LoopAfter(ok, bf.i, Len(bf.timestamps))]
    /\ call' = [call EXCEPT !["bf"] = IdleCall]
    /\ UNCHANGED <<now, raw, agg, lock, txn, col, srv, last, batch, unit>>

\* main(): the summary is logged and the exit code returned.
BfReturn ==
    /\ bf.pc = "summary"
    /\ bf' = [bf EXCEPT !.pc = "done",
                        !.exit = BfExitCode(bf.skip_existing, bf.timestamps,
                                            bf.successful)]
    /\ UNCHANGED <<now, raw, agg, lock, txn, call, col, srv, last, batch, unit>>

\* ---------------------------------------------------- serving route
\* get_aggregated_chart_data: OptionsFlowCalculator() is built per request.
SrvRequest ==
    /\ srv.pc = "idle"
    /\ \E s \in Symbols :
          srv' = [srv EXCEPT !.pc = "wait_init", !.symbol = s,
                            !.start = 0, !.end = MaxTime,
                            !.limit = Limit(DefaultLimit)]
    /\ call' = [call EXCEPT !["srv"] = BeginWrite("init", <<>>)]
    /\ UNCHANGED <<now, raw, agg, lock, txn, col, bf, last, batch, unit>>

\* The store is built: calculator.database.get_flow_aggregations(...)
SrvQuery ==
    /\ srv.pc = "wait_init"
    /\ call["srv"].pc = "returned"
    /\ IF call["srv"].api.raised
       THEN /\ srv' = [srv EXCEPT !.pc = "done", !.status = 500]
            /\ call' = [call EXCEPT !["srv"] = IdleCall]
       ELSE /\ srv' = [srv EXCEPT !.pc = "wait_read"]
            /\ call' = [call EXCEPT !["srv"] = BeginRead]
    /\ UNCHANGED <<now, raw, agg, lock, txn, col, bf, last, batch, unit>>

SrvRespond ==
    /\ srv.pc = "wait_read"
    /\ call["srv"].pc = "returned"
    /\ srv' = [srv EXCEPT !.pc = "done",
                          !.status = IF call["srv"].outcome = "ok"
                                     THEN 200 ELSE 500,
                          !.result = call["srv"].result]
    /\ call' = [call EXCEPT !["srv"] = IdleCall]
    /\ UNCHANGED <<now, raw, agg, lock, txn, col, bf, last, batch, unit>>

\* ------------------------------------------------------------- system
\* The clock is read by _calculate_option_metrics and store_aggregated_data
\* only: time passes before a step that reads it.
Tick ==
    /\ now < MaxTime
    /\ col.pc \in {"idle", "store_agg"}
    /\ col.cycle < MaxCycles
    /\ now' = now + 1
    /\ UNCHANGED <<raw, agg, lock, txn, call, col, bf, srv, last, batch, unit>>

NoBatch == [pc |-> "off"]
NoUnit == [op |-> "none"]

\* The store as found: one earlier snapshot of symbol B, collected at time 0
\* by a collector that stored every raw row; its aggregate is stored too,
\* unless that write failed.
InitDoc == Doc(100, Opt(1, 1, 2), Opt(-2, 1, 1))

InitRaw ==
    {CreateOptionRecord("B", 0, c, InitDoc.opts[c], InitDoc.underlying) :
        c \in Contracts}

InitAgg ==
    CollectorAggregation("B", 0,
        CalculateFlowMetrics("B", InitDoc, TRUE, <<>>, 0))

Init ==
    /\ now = 0
    /\ raw = InitRaw
    /\ agg \in {{}, {InitAgg}}
    /\ lock = "none"
    /\ txn = NoTxn
    /\ call = [p \in Procs |-> IdleCall]
    /\ \E s \in Symbols :
          col = [ pc |-> "idle", cycle |-> 0, symbol |-> s, enabled |-> TRUE,
                  cache |-> <<>>, m |-> NoMetrics, raw_ts |-> 0,
                  agg_stored |-> FALSE, agg_row |-> <<>>, status |-> "",
                  failed |-> FALSE, contended |-> FALSE,
                  snap |-> {[symbol |-> "B", raw_ts |-> 0, row |-> r] :
                               r \in agg},
                  alone |-> [raw |-> {r \in raw : r.symbol = s},
                             agg |-> {r \in agg : r.symbol = s}] ]
    /\ bf = IdleBackfill
    /\ srv = [ pc |-> "idle", symbol |-> "", start |-> 0, end |-> 0,
               limit |-> NoLimit, status |-> 0, result |-> <<>>,
               seen |-> {}, inflight |-> {} ]
    /\ last = [k \in {AggKey(r) : r \in agg} |->
                 CHOOSE r \in agg : AggKey(r) = k]
    /\ batch = NoBatch
    /\ unit = NoUnit

StoreWrite ==
    \/ \E p \in Procs : WriteAcquire(p)
    \/ \E p \in Procs : WriteLocked(p)
    \/ \E p \in Procs : WriteOp(p)
    \/ \E p \in Procs : WriteInsert(p)
    \/ \E p \in Procs : WriteCommit(p)

StoreRead ==
    \/ ReadOk("srv")
    \/ ReadLocked("srv")

Collector ==
    \/ ColFetchNothing
    \/ ColCalculate
    \/ ColStoreAgg
    \/ ColStoreRaw
    \/ ColFinish

Backfill ==
    \/ BfStart
    \/ BfDiscover
    \/ BfCalculate
    \/ BfCount
    \/ BfReturn

Serving ==
    \/ SrvRequest
    \/ SrvQuery
    \/ SrvRespond

\* The collector and the backfill driver, two writers on one store.
NextWriters == Tick \/ StoreWrite \/ Collector \/ Backfill

SpecWriters == Init /\ [][NextWriters]_vars

\* The collector and the serving route.
NextServe == Tick \/ StoreWrite \/ StoreRead \/ Collector \/ Serving

SpecServe == Init /\ [][NextServe]_vars

\* ------------------------------------------------- methods on their own
\* Everything but the method under study is at rest.
Quiet ==
    /\ now = 0
    /\ raw = {}
    /\ agg = {}
    /\ lock = "none"
    /\ txn = NoTxn
    /\ call = [p \in Procs |-> IdleCall]
    /\ col = [pc |-> "off"]
    /\ bf = [pc |-> "off"]
    /\ srv = [pc |-> "off"]
    /\ last = <<>>

\* The quotes fed to the cache: all fields 0, or one of the fields raised.
QuoteFields ==
    { "mark", "bid", "ask", "last", "totalVolume", "openInterest",
      "delta4", "gamma", "theta", "vega", "rho", "volatility" }

Quotes == {Quote0} \cup {[Quote0 EXCEPT ![f] = 1] : f \in QuoteFields}

\* A collector object with an empty cache, fed one contract at a time.
InitCache ==
    [ op |-> "cache", cache |-> <<>>, fed |-> <<>>, did |-> "nothing",
      key |-> <<>>, quote |-> Quote0, seen |-> FALSE, previous |-> Quote0,
      before |-> <<>>, result |-> FALSE,
      doc |-> InitDoc, enabled |-> TRUE, row |-> <<>>, records |-> <<>> ]

\* _should_store_option_record(symbol, expiry, strike, type, option_data)
UnitShouldStore ==
    /\ unit.op = "cache"
    /\ \E c \in Contracts, q \in Quotes :
          LET k == OptionKey("A", c)
          IN  unit' = [unit EXCEPT
                !.did = "should_store",
                !.key = k, !.quote = q,
                !.seen = k \in DOMAIN unit.fed,
                !.previous = IF k \in DOMAIN unit.fed
                             THEN unit.fed[k] ELSE Quote0,
                !.before = unit.cache,
                !.result = ShouldStore(TRUE, unit.cache, "A", c, q),
                !.cache = CacheAfter(TRUE, unit.cache, "A", c, q),
                !.fed = (k :> q) @@ unit.fed]
    /\ UNCHANGED <<now, raw, agg, lock, txn, call, col, bf, srv, last, batch>>

\* Steps 2 and 3 of process_symbol on a document, the store left out:
\* calculate_flow_metrics, then the row store_aggregated_data builds.
UnitProcess ==
    /\ unit.op = "cache"
    /\ \E doc \in Chains, enabled \in BOOLEAN :
          LET m == CalculateFlowMetrics("A", doc, enabled, unit.cache, 0)
          IN  unit' = [unit EXCEPT
                !.did = "process",
                !.doc = doc, !.enabled = enabled,
                !.before = unit.cache,
                !.row = CollectorAggregation("A", 0, m),
                !.records = m.raw_records,
                !.cache = m.cache,
                !.fed = IF enabled
                        THEN [k \in {OptionKey("A", c) : c \in Contracts} |->
                                doc.opts[CHOOSE c \in Contracts :
                                           OptionKey("A", c) = k]] @@ unit.fed
                        ELSE unit.fed]
    /\ UNCHANGED <<now, raw, agg, lock, txn, call, col, bf, srv, last, batch>>

InitUnits ==
    /\ Quiet
    /\ batch = NoBatch
    /\ unit = InitCache

NextUnits == UnitShouldStore \/ UnitProcess

SpecUnits == InitUnits /\ [][NextUnits]_vars

\* ------------------------------------------- collect_multiple_symbols
Watchlist == <<"A", "B">>

\* A document whose put carries "delta": null.
NullDeltaDoc ==
    Doc(100, Opt(1, 1, 2), [Opt(0, 1, 1) EXCEPT !.null = {"delta4"}])

\* A document whose put has no fields at all: every key reads as 0.
BareDoc == Doc(100, Opt(1, 1, 2), Quote0)

\* A document with the underlying quote and no contract on either side.
NoContractsDoc == [underlying |-> 100, opts |-> <<>>]

BatchChains == {InitDoc, BareDoc, NullDeltaDoc, NoContractsDoc}

FetchError == "upstream error"

\* Variant: collect_options_chain lets the exception through.
Reraise(symbol, e) ==
    [symbol |-> symbol, status |-> "raised", message |-> e]

\* collect_options_chain: except Exception as e
OnFetchError(symbol, e) ==
    [symbol |-> symbol, status |-> "error", message |-> e]

\* process_symbol: the result when the collection did not succeed
FailedCollection(c) ==
    [ symbol |-> c.symbol, status |-> c.status, message |-> c.message,
      aggregation_stored |-> FALSE, raw_records_stored |-> 0 ]

\* process_symbol: the result after the four steps
Processed(symbol, aggregation_stored, raw_records_stored) ==
    [ symbol |-> symbol, status |-> "success", message |-> "",
      aggregation_stored |-> aggregation_stored,
      raw_records_stored |-> raw_records_stored ]

InitBatch ==
    [ pc |-> "next", i |-> 1, results |-> <<>>, cache |-> <<>>,
      m |-> NoMetrics, agg_stored |-> FALSE, fetch |-> "", error |-> "",
      computed |-> <<>>, sleeps |-> 0, fetches |-> 0 ]

BatchSymbol == Watchlist[batch.i]

BatchAppend(result) ==
    [batch EXCEPT !.pc = "next", !.i = @ + 1, !.m = NoMetrics,
                  !.results = Append(@, result)]

\* Variant: the pacing sleep placed before the trading-hours check.
PacingBeforeCheck(i) == IF i > 1 THEN 1 ELSE 0

\* The pacing sleeps spent on a symbol that is skipped: the continue comes
\* before time.sleep(self.rate_limit_delay).
SkipPacing(i) == 0

\* is_trading_time(symbol) is false: the symbol is skipped.
BatchSkipHours ==
    /\ batch.pc = "next" /\ batch.i <= Len(Watchlist)
    /\ batch' = [BatchAppend(
                    [ symbol |-> BatchSymbol, status |-> "skipped_hours",
                      message |-> "", aggregation_stored |-> FALSE,
                      raw_records_stored |-> 0 ])
                  EXCEPT !.sleeps = @ + SkipPacing(batch.i)]
    /\ UNCHANGED <<now, raw, agg, lock, txn, call, col, bf, srv, last, unit>>

\* is_trading_time(symbol) is true: the pacing sleep starts for every
\* symbol but the first of the list.
BatchEligible ==
    /\ batch.pc = "next" /\ batch.i <= Len(Watchlist)
    /\ batch' = [batch EXCEPT !.pc = IF batch.i > 1 THEN "pacing"
                                     ELSE "fetch"]
    /\ UNCHANGED <<now, raw, agg, lock, txn, call, col, bf, srv, last, unit>>

\* time.sleep(self.rate_limit_delay) is over.
BatchPaced ==
    /\ batch.pc = "pacing"
    /\ batch' = [batch EXCEPT !.pc = "fetch", !.sleeps = @ + 1]
    /\ UNCHANGED <<now, raw, agg, lock, txn, call, col, bf, srv, last, unit>>

\* process_symbol step 1: the upstream call raises.
BatchFetchFailed ==
    /\ batch.pc = "fetch"
    /\ LET c == OnFetchError(BatchSymbol, FetchError)
       IN  batch' = IF c.status = "raised"
                    THEN [batch EXCEPT !.pc = "raised", !.fetch = c.status,
                                       !.error = c.message,
                                       !.fetches = @ + 1]
                    ELSE [BatchAppend(FailedCollection(c))
                            EXCEPT !.fetch = c.status, !.fetches = @ + 1]
    /\ UNCHANGED <<now, raw, agg, lock, txn, call, col, bf, srv, last, unit>>

\* process_symbol step 1: the upstream answers with nothing.
BatchFetchNothing ==
    /\ batch.pc = "fetch"
    /\ batch' = [BatchAppend(FailedCollection(
                    [ symbol |-> BatchSymbol, status |-> "no_data",
                      message |-> "Failed to collect options data" ]))
                  EXCEPT !.fetch = "no_data", !.fetches = @ + 1]
    /\ UNCHANGED <<now, raw, agg, lock, txn, call, col, bf, srv, last, unit>>

\* process_symbol steps 1 and 2: a document arrives; calculate_flow_metrics
\* runs over it, or raises TypeError, which nothing on the way up catches.
BatchCalculate ==
    /\ batch.pc = "fetch"
    /\ \E doc \in BatchChains :
          IF MetricsTypeError(doc)
          THEN batch' = [batch EXCEPT !.pc = "raised", !.fetch = "success",
                                      !.error = "TypeError",
                                      !.fetches = @ + 1]
          ELSE LET m == CalculateFlowMetrics(BatchSymbol, doc, TRUE,
                                             batch.cache, now)
               IN  batch' = [batch EXCEPT !.pc = "store_agg",
                                          !.fetch = "success", !.m = m,
                                          !.cache = m.cache,
                                          !.fetches = @ + 1]
    /\ UNCHANGED <<now, raw, agg, lock, txn, call, col, bf, srv, last, unit>>

\* process_symbol step 3: store_aggregated_data
BatchStoreAgg ==
    /\ batch.pc = "store_agg"
    /\ LET row == CollectorAggregation(BatchSymbol, now, batch.m)
       IN  /\ batch' = [batch EXCEPT !.pc = "wait_agg",
                                      !.computed = (batch.i :> row) @@ @]
           /\ call' = [call EXCEPT !["col"] = BeginWrite("agg", <<row>>)]
    /\ UNCHANGED <<now, raw, agg, lock, txn, col, bf, srv, last, unit>>

\* process_symbol step 4: store_raw_data
BatchStoreRaw ==
    /\ batch.pc = "wait_agg"
    /\ call["col"].pc = "returned"
    /\ LET stored == call["col"].api.value[1]
           recs == batch.m.raw_records
       IN  IF recs = <<>>
           THEN /\ batch' = BatchAppend(Processed(BatchSymbol, stored, 0))
                /\ call' = [call EXCEPT !["col"] = IdleCall]
           ELSE /\ batch' = [batch EXCEPT !.pc = "wait_raw",
                                          !.agg_stored = stored]
                /\ call' = [call EXCEPT !["col"] = BeginWrite("raw", recs)]
    /\ UNCHANGED <<now, raw, agg, lock, txn, col, bf, srv, last, unit>>

\* insert_options_data returned its counts, or raised: nothing between it
\* and the caller of collect_multiple_symbols catches the error.
BatchFinish ==
    /\ batch.pc = "wait_raw"
    /\ call["col"].pc = "returned"
    /\ batch' = IF call["col"].api.raised
                 THEN [batch EXCEPT !.pc = "raised", !.m = NoMetrics,
                                    !.error = call["col"].api.error]
                 ELSE BatchAppend(Processed(BatchSymbol, batch.agg_stored,
                                            call["col"].api.value[1]))
    /\ call' = [call EXCEPT !["col"] = IdleCall]
    /\ UNCHANGED <<now, raw, agg, lock, txn, col, bf, srv, last, unit>>

\* The loop is over: the method returns its summary.
BatchReturn ==
    /\ batch.pc = "next" /\ batch.i > Len(Watchlist)
    /\ batch' = [batch EXCEPT !.pc = "returned"]
    /\ UNCHANGED <<now, raw, agg, lock, txn, call, col, bf, srv, last, unit>>

\* Another connection (a backfill run, the serving route's init_database)
\* holds the write lock for a while.
OtherWriterBegins ==
    /\ lock = "none"
    /\ batch.pc \in {"store_agg", "wait_agg", "wait_raw"}
    /\ lock' = "other"
    /\ UNCHANGED <<now, raw, agg, txn, call, col, bf, srv, last, batch, unit>>

OtherWriterEnds ==
    /\ lock = "other"
    /\ lock' = "none"
    /\ UNCHANGED <<now, raw, agg, txn, call, col, bf, srv, last, batch, unit>>

Batch ==
    \/ BatchSkipHours
    \/ BatchEligible
    \/ BatchPaced
    \/ BatchFetchFailed
    \/ BatchFetchNothing
    \/ BatchCalculate
    \/ BatchStoreAgg
    \/ BatchStoreRaw
    \/ BatchFinish
    \/ BatchReturn

OtherWriter == OtherWriterBegins \/ OtherWriterEnds

\* The store as found (one earlier snapshot of B and its aggregate), a new
\* collector object and its watchlist.
InitBatchRun ==
    /\ now = 0
    /\ raw = InitRaw
    /\ agg = {InitAgg}
    /\ lock = "none"
    /\ txn = NoTxn
    /\ call = [p \in Procs |-> IdleCall]
    /\ col = [pc |-> "off"]
    /\ bf = [pc |-> "off"]
    /\ srv = [pc |-> "off"]
    /\ last = (AggKey(InitAgg) :> InitAgg)
    /\ batch = InitBatch
    /\ unit = NoUnit

NextBatch == StoreWrite \/ Batch \/ OtherWriter

SpecBatch == InitBatchRun /\ [][NextBatch]_vars

\* ------------------------------------------------- the backfill, alone
\* The snapshot of B the collector stores at time t, and its aggregate.
RawAt(t) ==
    {CreateOptionRecord("B", t, c, InitDoc.opts[c], InitDoc.underlying) :
        c \in Contracts}

AggAt(t) ==
    CollectorAggregation("B", t,
        CalculateFlowMetrics("B", InitDoc, TRUE, <<>>, t))

\* The documents the stored snapshots were taken from.  The second has a
\* call delta volume of 1.5, a put delta volume of 1.0 and a net of 0.5.
HalfDoc == Doc(100, Opt(3, 2, 0), Opt(-2, 2, 0))

SnapshotDocs == {InitDoc, HalfDoc}

SnapshotAt(t, doc) ==
    {CreateOptionRecord("B", t, c, doc.opts[c], doc.underlying) :
        c \in Contracts}

AggregateAt(t, doc) ==
    CollectorAggregation("B", t,
        CalculateFlowMetrics("B", doc, TRUE, <<>>, t))

\* The driver is run from the command line with nothing else at work: the
\* raw table holds snapshots of B, some of them aggregated already.
InitBackfill ==
    /\ now = 0
    /\ \E doc \in SnapshotDocs :
          /\ \E T \in SUBSET Times :
                raw = UNION {SnapshotAt(t, doc) : t \in T}
          /\ \E T \in SUBSET Times : agg = {AggregateAt(t, doc) : t \in T}
    /\ lock = "none"
    /\ txn = NoTxn
    /\ call = [p \in Procs |-> IdleCall]
    /\ col = [pc |-> "off"]
    /\ bf = IdleBackfill
    /\ srv = [pc |-> "off"]
    /\ last = [k \in {AggKey(r) : r \in agg} |->
                 CHOOSE r \in agg : AggKey(r) = k]
    /\ batch = NoBatch
    /\ unit = NoUnit

\* With one process no BEGIN IMMEDIATE finds the lock taken.
StoreWriteAlone ==
    \/ WriteAcquire("bf")
    \/ WriteOp("bf")
    \/ WriteInsert("bf")
    \/ WriteCommit("bf")

NextBackfill == StoreWriteAlone \/ Backfill \/ BfRerun

SpecBackfill == InitBackfill /\ [][NextBackfill]_vars

\* The driver with another connection on the store: a collector that is
\* storing, which holds the write lock for a while.
BfOtherWriterBegins ==
    /\ lock = "none"
    /\ bf.pc \in {"next", "wait_agg"}
    /\ lock' = "other"
    /\ UNCHANGED <<now, raw, agg, txn, call, col, bf, srv, last, batch, unit>>

NextContended ==
    \/ StoreWriteAlone
    \/ WriteLocked("bf")
    \/ Backfill
    \/ BfOtherWriterBegins
    \/ OtherWriterEnds

SpecContended == InitBackfill /\ [][NextContended]_vars

\* -------------------------------------------------- insert_options_data
MaxBatch == 2

\* Records a caller may pass: the collector's records of A, with either
\* volume, and the same with the symbol missing or of a type that cannot
\* be bound.
BatchRecords ==
    {[CreateOptionRecord("A", 0, c, Opt(1, v, 0), 100) EXCEPT !.symbol = s] :
        c \in Contracts, v \in {1, 2}, s \in {"A", None, Unsupported}}

Batches == UNION {[1..n -> BatchRecords] : n \in 0..MaxBatch}

InitInsert ==
    [ op |-> "insert", did |-> FALSE, before |-> {}, records |-> <<>>,
      inserted |-> 0, duplicates |-> 0 ]

\* insert_options_data(options_records) with no other writer at work: the
\* batch in one transaction, committed, and the two counts returned.
UnitInsert ==
    /\ unit.op = "insert"
    /\ \E recs \in Batches :
          LET st == InsertRecords(raw, recs)
          IN  /\ raw' = st.table
              /\ unit' = [unit EXCEPT !.did = TRUE, !.before = raw,
                                      !.records = recs,
                                      !.inserted = st.inserted,
                                      !.duplicates = st.duplicates]
    /\ UNCHANGED <<now, agg, lock, txn, call, col, bf, srv, last, batch>>

InitInsertRun ==
    /\ Quiet
    /\ batch = NoBatch
    /\ unit = InitInsert

NextInsert == UnitInsert

SpecInsert == InitInsertRun /\ [][NextInsert]_vars

\* ------------------------------------- _execute_write and its operation
\* The operations handed to _execute_write: the two inserts of the store,
\* and an operation that inserts records and may raise.
WriteCalls ==
    {BeginWrite("agg", <<row>>) :
        row \in {InitAgg, [InitAgg EXCEPT !.timestamp = 1],
                 [InitAgg EXCEPT !.symbol = None]}}
    \cup {BeginWrite(kind, recs) :
            kind \in {"raw", "raises"}, recs \in Batches \ {<<>>}}

InitWrite == [op |-> "write", did |-> FALSE, before |-> NoTxn]

\* One call of _execute_write, with no other writer at work.
UnitWrite ==
    /\ unit.op = "write"
    /\ ~unit.did
    /\ \E c \in WriteCalls : call' = [call EXCEPT !["col"] = c]
    /\ unit' = [unit EXCEPT !.did = TRUE,
                            !.before = [raw |-> raw, agg |-> agg]]
    /\ UNCHANGED <<now, raw, agg, lock, txn, col, bf, srv, last, batch>>

StoreWriteRaising ==
    \/ WriteAcquire("col")
    \/ WriteOp("col")
    \/ WriteInsert("col")
    \/ WriteCommit("col")
    \/ WriteFails("col")
    \/ WriteRollback("col")

InitWriteRun ==
    /\ now = 0
    /\ \/ raw = {} /\ agg = {}
       \/ raw = InitRaw /\ agg = {InitAgg}
    /\ lock = "none"
    /\ txn = NoTxn
    /\ call = [p \in Procs |-> IdleCall]
    /\ col = [pc |-> "off"]
    /\ bf = [pc |-> "off"]
    /\ srv = [pc |-> "off"]
    /\ last = <<>>
    /\ batch = NoBatch
    /\ unit = InitWrite

NextWrite == UnitWrite \/ StoreWriteRaising

SpecWrite == InitWriteRun /\ [][NextWrite]_vars

\* ------------------------------------------- the flow computation alone
MaxRows == 2

\* Contracts of stored rows: two calls and a put.
Call2Of == [CallOf EXCEPT !.strike = 2]
RowContracts == {CallOf, Call2Of, PutOf}

\* Quotes behind stored rows: delta -1/2, 0 or 3/4, or no delta at all.
RowQuotes ==
    {Opt(d4, v, oi) : d4 \in {-2, 0, 3}, v \in 0..2, oi \in 0..1}
    \cup {[Opt(0, v, oi) EXCEPT !.null = {"delta4"}] : v \in {0, 2}, oi \in 0..1}

\* The rows of one (symbol, timestamp): at least one, one per contract.
RowSets ==
    UNION {{{CreateOptionRecord("A", 0, c, q[c], 100) : c \in S} :
                q \in [S -> RowQuotes]} :
             S \in {T \in SUBSET RowContracts :
                        Cardinality(T) \in 1..MaxRows}}

\* Chain documents with a call, a put, both or neither.
ChainOf(underlying, quotes) == [underlying |-> underlying, opts |-> quotes]

ChainQuotes == {Opt(d4, v, 0) : d4 \in {-2, 0, 3}, v \in {0, 2}}

FlowChains ==
    {ChainOf(100, q) :
        q \in UNION {[S -> ChainQuotes] : S \in SUBSET Contracts}}

\* The fields of a result that belong to the aggregate.
AggregateFields ==
    { "call_delta_volume", "put_delta_volume", "net_delta_volume",
      "delta_ratio", "call_volume", "put_volume", "total_volume",
      "put_call_ratio", "underlying_price", "sentiment",
      "sentiment_strength", "total_records" }

Aggregate(result) == [f \in AggregateFields |-> result[f]]

InitFlow ==
    [ op |-> "flow", did |-> "none", symbol |-> "A", rows |-> {},
      doc |-> InitDoc,
      cache |-> <<>>, earlier |-> FALSE, result |-> <<>>,
      again |-> FALSE, previous |-> <<>> ]

\* _calculate_flow_metrics(symbol, options_data) on a list of stored rows.
UnitFlowRows ==
    /\ unit.op = "flow"
    /\ unit.did = "none"
    /\ \E rows \in RowSets :
          unit' = [unit EXCEPT !.did = "rows", !.rows = rows,
                               !.result = FlowMetrics("A", rows)]
    /\ UNCHANGED <<now, raw, agg, lock, txn, call, col, bf, srv, last, batch>>

\* calculate_flow_metrics(symbol, options_data) on a fetched document, by a
\* collector that is new or has processed one document before.
UnitFlowChain ==
    /\ unit.op = "flow"
    /\ unit.did = "none" \/ (unit.did = "chain" /\ ~unit.earlier /\ ~unit.again)
    /\ \E doc \in FlowChains, enabled \in BOOLEAN :
          LET m == CalculateFlowMetrics("A", doc, enabled, unit.cache, now)
          IN  unit' = [unit EXCEPT !.did = "chain", !.doc = doc,
                                   !.earlier = (unit.did = "chain"),
                                   !.cache = m.cache,
                                   !.result = m]
    /\ UNCHANGED <<now, raw, agg, lock, txn, call, col, bf, srv, last, batch>>

\* calculate_current_flow(symbol) over the store as it is.
UnitCurrentFlow ==
    /\ unit.op = "flow"
    /\ unit.did = "none"
    /\ \E symbol \in Symbols :
          unit' = [unit EXCEPT !.did = "current", !.symbol = symbol,
                               !.rows = {r \in raw : r.symbol = symbol},
                               !.result = CalculateCurrentFlow(raw, symbol)]
    /\ UNCHANGED <<now, raw, agg, lock, txn, call, col, bf, srv, last, batch>>

\* The same records handed to the calculation once more.
UnitFlowAgain ==
    /\ unit.op = "flow"
    /\ unit.did # "none"
    /\ ~unit.again
    /\ IF unit.did = "rows"
       THEN unit' = [unit EXCEPT !.again = TRUE,
                                 !.previous = unit.result,
                                 !.result = FlowMetrics("A", unit.rows)]
       ELSE IF unit.did = "current"
       THEN unit' = [unit EXCEPT !.again = TRUE,
                                 !.previous = unit.result,
                                 !.result = CalculateCurrentFlow(raw,
                                                                unit.symbol)]
       ELSE \E enabled \in BOOLEAN :
              LET m == CalculateFlowMetrics("A", unit.doc, enabled,
                                            unit.cache, now)
              IN  unit' = [unit EXCEPT !.again = TRUE,
                                       !.previous = unit.result,
                                       !.cache = m.cache,
                                       !.result = m]
    /\ UNCHANGED <<now, raw, agg, lock, txn, call, col, bf, srv, last, batch>>

\* The calculation is handed its records; the store holds what it holds.
InitFlowRun ==
    /\ now = 0
    /\ \/ raw = {} /\ agg = {}
       \/ raw = InitRaw /\ agg = {InitAgg}
    /\ lock = "none"
    /\ txn = NoTxn
    /\ call = [p \in Procs |-> IdleCall]
    /\ col = [pc |-> "off"]
    /\ bf = [pc |-> "off"]
    /\ srv = [pc |-> "off"]
    /\ last = <<>>
    /\ batch = NoBatch
    /\ unit = InitFlow

NextFlow ==
    UnitFlowRows \/ UnitFlowChain \/ UnitCurrentFlow \/ UnitFlowAgain

SpecFlow == InitFlowRun /\ [][NextFlow]_vars

\* ------------------------------------------------ get_flow_aggregations
\* Aggregates of both symbols at every time of the clock.
QueryRows == {[AggAt(t) EXCEPT !.symbol = s] : s \in Symbols, t \in Times}

Limits == {NoLimit} \cup {Limit(n) : n \in 0..2}

InitQuery ==
    [ op |-> "query", did |-> FALSE, symbol |-> "A", start |-> 0, end |-> 0,
      limit |-> NoLimit, result |-> <<>> ]

\* get_flow_aggregations(symbol, start_timestamp, end_timestamp, limit)
\* with no writer at work.
UnitQuery ==
    /\ unit.op = "query"
    /\ \E symbol \in Symbols, start \in Times, end \in Times,
          limit \in Limits :
          unit' = [unit EXCEPT !.did = TRUE, !.symbol = symbol,
                               !.start = start, !.end = end,
                               !.limit = limit,
                               !.result = GetFlowAgg(agg, symbol, start, end,
                                                     limit)]
    /\ UNCHANGED <<now, raw, agg, lock, txn, call, col, bf, srv, last, batch>>

InitQueryRun ==
    /\ now = 0
    /\ raw = {}
    /\ agg \in SUBSET QueryRows
    /\ lock = "none"
    /\ txn = NoTxn
    /\ call = [p \in Procs |-> IdleCall]
    /\ col = [pc |-> "off"]
    /\ bf = [pc |-> "off"]
    /\ srv = [pc |-> "off"]
    /\ last = <<>>
    /\ batch = NoBatch
    /\ unit = InitQuery

NextQuery == UnitQuery

SpecQuery == InitQueryRun /\ [][NextQuery]_vars

\* ------------------------------------------------------- trading hours
\* An instant of US/Eastern wall-clock time, counted in half seconds from
\* a Monday 00:00:00.
Seconds(n) == 2 * n
Minutes(n) == Seconds(60 * n)
Hours(n) == Minutes(60 * n)
Days(n) == Hours(24 * n)

\* now_et.weekday(): Monday is 0
Weekday(t) == (t \div Days(1)) % 7
TimeOfDay(t) == t % Days(1)
Hour(t) == TimeOfDay(t) \div Hours(1)
Minute(t) == (TimeOfDay(t) % Hours(1)) \div Minutes(1)

At(day, h, m, half_seconds) == Days(day) + Hours(h) + Minutes(m) + half_seconds

MARKET_OPEN == <<9, 30>>
MARKET_CLOSE == <<16, 0>>
ExtendedSymbols == {"SPY", "QQQ"}

\* symbol.upper()
Upper(symbol) ==
    IF symbol = "spy" THEN "SPY" ELSE IF symbol = "qqq" THEN "QQQ" ELSE symbol

\* is_trading_time(symbol) at the instant t
IsTradingTime(symbol, t) ==
    LET market_start_minutes == MARKET_OPEN[1] * 60 + MARKET_OPEN[2]
        market_end_minutes == MARKET_CLOSE[1] * 60 + MARKET_CLOSE[2]
        current_minutes == Hour(t) * 60 + Minute(t)
        extended_end_minutes == 16 * 60 + 15
    IN  IF Weekday(t) >= 5 THEN FALSE
        ELSE IF symbol # None /\ Upper(symbol) \in ExtendedSymbols
        THEN /\ market_start_minutes <= current_minutes
             /\ current_minutes <= extended_end_minutes
        ELSE /\ market_start_minutes <= current_minutes
             /\ current_minutes <= market_end_minutes

\* any(collector.is_trading_time(s) for s in symbols)
AnyTrading(symbols, t) ==
    \E i \in 1..Len(symbols) : IsTradingTime(symbols[i], t)

\* calculate_time_until_market_open at the instant t, in whole seconds:
\* int(time_diff.total_seconds()) drops the fraction.
CalculateTimeUntilMarketOpen(t) ==
    LET next_market_day ==
            IF Weekday(t) >= 5 THEN t + Days(7 - Weekday(t)) ELSE t
        replaced == next_market_day - TimeOfDay(next_market_day)
                       + Hours(MARKET_OPEN[1]) + Minutes(MARKET_OPEN[2])
        market_open_time ==
            IF t >= replaced /\ Weekday(t) < 5
            THEN IF Weekday(t) = 4 THEN replaced + Days(3)
                                   ELSE replaced + Days(1)
            ELSE replaced
    IN  (market_open_time - t) \div Seconds(1)

\* The times of day tried: around the open, the close and the extended
\* close, on the second and half a second off it.
TimesOfDay ==
    { At(0, 0, 0, 0), At(0, 9, 29, Seconds(59)), At(0, 9, 29, Seconds(59) + 1),
      At(0, 9, 30, 0), At(0, 9, 30, 1), At(0, 12, 0, 0),
      At(0, 16, 0, 0), At(0, 16, 0, 1), At(0, 16, 0, Seconds(59) + 1),
      At(0, 16, 1, 0), At(0, 16, 15, 0), At(0, 16, 15, Seconds(59) + 1),
      At(0, 16, 16, 0), At(0, 23, 59, Seconds(59) + 1) }

Instants == {Days(d) + x : d \in 0..6, x \in TimesOfDay}

Targets ==
    { <<"A">>, <<"SPY">>, <<"spy">>, <<"A", "QQQ">>, <<"A", "B">>, <<None>> }

InitHours ==
    [ op |-> "hours", did |-> "none", clock |-> 0, symbols |-> <<>>,
      trading |-> <<>>, wait_seconds |-> 0, woke |-> 0 ]

\* The top of an iteration of the continuous loop: is_trading_time for
\* every target symbol.
UnitAnyTrading ==
    /\ unit.op = "hours"
    /\ unit.did = "none"
    /\ unit' = [unit EXCEPT
          !.did = "checked",
          !.trading = [i \in 1..Len(unit.symbols) |->
                          IsTradingTime(unit.symbols[i], unit.clock)]]
    /\ UNCHANGED <<now, raw, agg, lock, txn, call, col, bf, srv, last, batch>>

\* No symbol is trading: wait_seconds is computed and slept.
UnitWaitForOpen ==
    /\ unit.op = "hours"
    /\ unit.did = "checked"
    /\ \A i \in 1..Len(unit.trading) : ~unit.trading[i]
    /\ LET wait_seconds == CalculateTimeUntilMarketOpen(unit.clock)
       IN  unit' = [unit EXCEPT !.did = "waited",
                                !.wait_seconds = wait_seconds,
                                !.woke = unit.clock + Seconds(wait_seconds)]
    /\ UNCHANGED <<now, raw, agg, lock, txn, call, col, bf, srv, last, batch>>

InitHoursRun ==
    /\ Quiet
    /\ batch = NoBatch
    /\ \E t \in Instants, symbols \in Targets :
          unit = [InitHours EXCEPT !.clock = t, !.symbols = symbols]

NextHours == UnitAnyTrading \/ UnitWaitForOpen

SpecHours == InitHoursRun /\ [][NextHours]_vars

\* --------------------------------------- a caller that keeps collecting
\* A caller of process_symbol that catches the error of a cycle and goes on
\* with the same collector, cache and all.  lost holds the raw records of
\* the cycles whose insert raised.
InitCaller == [op |-> "caller", caught |-> 0, lost |-> {}]

ColCaught ==
    /\ unit.op = "caller"
    /\ unit.caught < MaxCycles
    /\ col.pc = "wait_raw"
    /\ call["col"].pc = "returned"
    /\ call["col"].api.raised
    /\ unit' = [unit EXCEPT !.caught = @ + 1,
                            !.lost = @ \cup {call["col"].rows[i] :
                                                i \in DOMAIN call["col"].rows}]
    /\ col' = [col EXCEPT !.pc = "idle", !.m = NoMetrics,
                          !.status = "exception", !.failed = TRUE,
                          !.contended = TRUE]
    /\ call' = [call EXCEPT !["col"] = IdleCall]
    /\ UNCHANGED <<now, raw, agg, lock, txn, bf, srv, last, batch>>

\* Another connection takes the write lock while the collector stores.
ColOtherWriterBegins ==
    /\ lock = "none"
    /\ col.pc \in {"wait_agg", "wait_raw"}
    /\ lock' = "other"
    /\ UNCHANGED <<now, raw, agg, txn, call, col, bf, srv, last, batch, unit>>

InitRecollect ==
    /\ now = 0
    /\ raw = InitRaw
    /\ agg = {InitAgg}
    /\ lock = "none"
    /\ txn = NoTxn
    /\ call = [p \in Procs |-> IdleCall]
    /\ col = [ pc |-> "idle", cycle |-> 0, symbol |-> "A", enabled |-> TRUE,
               cache |-> <<>>, m |-> NoMetrics, raw_ts |-> 0,
               agg_stored |-> FALSE, agg_row |-> <<>>, status |-> "",
               failed |-> FALSE, contended |-> FALSE, snap |-> {},
               alone |-> [raw |-> {}, agg |-> {}] ]
    /\ bf = [pc |-> "off"]
    /\ srv = [pc |-> "off"]
    /\ last = (AggKey(InitAgg) :> InitAgg)
    /\ batch = NoBatch
    /\ unit = InitCaller

NextRecollect ==
    \/ Tick
    \/ StoreWrite
    \/ Collector
    \/ ColCaught
    \/ ColOtherWriterBegins
    \/ OtherWriterEnds

SpecRecollect == InitRecollect /\ [][NextRecollect]_vars

\* ------------------------------------------- main, continuous collection
\* collect_multiple_symbols(self, symbols, strike_count): the arguments it
\* accepts besides self, and those main passes (symbols, args.strikes,
\* args.force_collect).
MultiSymbolParameters == 2
MultiSymbolArguments == 3

\* A call with more positional arguments than parameters raises TypeError.
CallBinds(arguments, parameters) == arguments <= parameters

TargetLists == {<<"A">>, <<"A", "B">>}

InitMain ==
    [ op |-> "main", pc |-> "top", symbols |-> <<"A">>, count |-> 0,
      exit |-> 0, error |-> "", cancelled |-> FALSE, cache |-> <<>>,
      m |-> NoMetrics, collected |-> 0, stopped_in |-> "" ]

MainExit(code, error) ==
    [unit EXCEPT !.pc = "exited", !.exit = code, !.error = error,
                 !.m = NoMetrics]

\* while True: the market hours check at the top of an iteration.
MainTop ==
    /\ unit.op = "main" /\ unit.pc = "top"
    /\ unit.count < MaxCycles
    /\ \E any_trading \in BOOLEAN :
          unit' = [unit EXCEPT !.pc = IF any_trading THEN "collect"
                                      ELSE "waiting"]
    /\ UNCHANGED <<now, raw, agg, lock, txn, call, col, bf, srv, last, batch>>

\* time.sleep(wait_seconds) is over: on to the collection.
MainWoke ==
    /\ unit.op = "main" /\ unit.pc = "waiting"
    /\ unit' = [unit EXCEPT !.pc = "collect"]
    /\ UNCHANGED <<now, raw, agg, lock, txn, call, col, bf, srv, last, batch>>

\* collection_count += 1, then process_symbol for one symbol or
\* collect_multiple_symbols for more.
MainCollect ==
    /\ unit.op = "main" /\ unit.pc = "collect"
    /\ IF Len(unit.symbols) = 1
       THEN /\ unit' = [unit EXCEPT !.pc = "fetch", !.count = @ + 1]
            /\ UNCHANGED batch
       ELSE IF CallBinds(MultiSymbolArguments, MultiSymbolParameters)
       THEN /\ unit' = [unit EXCEPT !.pc = "multi", !.count = @ + 1]
            /\ batch' = InitBatch
       ELSE /\ unit' = [MainExit(1, "TypeError") EXCEPT !.count = @ + 1]
            /\ UNCHANGED batch
    /\ UNCHANGED <<now, raw, agg, lock, txn, call, col, bf, srv, last>>

\* process_symbol step 1 gives no chain: the result says so.
MainFetchNothing ==
    /\ unit.op = "main" /\ unit.pc = "fetch"
    /\ unit' = [unit EXCEPT !.pc = "interval"]
    /\ UNCHANGED <<now, raw, agg, lock, txn, call, col, bf, srv, last, batch>>

\* process_symbol steps 1 and 2; a TypeError of step 2 reaches main's
\* except Exception.
MainCalculate ==
    /\ unit.op = "main" /\ unit.pc = "fetch"
    /\ \E doc \in BatchChains :
          IF MetricsTypeError(doc)
          THEN unit' = MainExit(1, "TypeError")
          ELSE LET m == CalculateFlowMetrics(unit.symbols[1], doc, TRUE,
                                             unit.cache, now)
               IN  unit' = [unit EXCEPT !.pc = "store_agg", !.m = m,
                                        !.cache = m.cache]
    /\ UNCHANGED <<now, raw, agg, lock, txn, call, col, bf, srv, last, batch>>

\* process_symbol step 3
MainStoreAgg ==
    /\ unit.op = "main" /\ unit.pc = "store_agg"
    /\ LET row == CollectorAggregation(unit.symbols[1], now, unit.m)
       IN  call' = [call EXCEPT !["col"] = BeginWrite("agg", <<row>>)]
    /\ unit' = [unit EXCEPT !.pc = "wait_agg"]
    /\ UNCHANGED <<now, raw, agg, lock, txn, col, bf, srv, last, batch>>

\* process_symbol step 4
MainStoreRaw ==
    /\ unit.op = "main" /\ unit.pc = "wait_agg"
    /\ call["col"].pc = "returned"
    /\ LET recs == unit.m.raw_records
       IN  IF recs = <<>>
           THEN /\ unit' = [unit EXCEPT !.pc = "interval", !.m = NoMetrics,
                                        !.collected = @ + 1]
                /\ call' = [call EXCEPT !["col"] = IdleCall]
           ELSE /\ unit' = [unit EXCEPT !.pc = "wait_raw"]
                /\ call' = [call EXCEPT !["col"] = BeginWrite("raw", recs)]
    /\ UNCHANGED <<now, raw, agg, lock, txn, col, bf, srv, last, batch>>

\* process_symbol returns, or the lock error of insert_options_data
\* reaches main's except Exception.
MainFinish ==
    /\ unit.op = "main" /\ unit.pc = "wait_raw"
    /\ call["col"].pc = "returned"
    /\ unit' = IF call["col"].api.raised
               THEN MainExit(1, call["col"].api.error)
               ELSE [unit EXCEPT !.pc = "interval", !.m = NoMetrics,
                                 !.collected = @ + 1]
    /\ call' = [call EXCEPT !["col"] = IdleCall]
    /\ UNCHANGED <<now, raw, agg, lock, txn, col, bf, srv, last, batch>>

\* time.sleep(args.interval) is over: the next iteration.
MainInterval ==
    /\ unit.op = "main"
    /\ IF unit.pc = "multi" THEN batch.pc = "returned"
       ELSE unit.pc = "interval"
    /\ unit' = [unit EXCEPT !.pc = "top"]
    /\ now' = IF now < MaxTime THEN now + 1 ELSE now
    /\ UNCHANGED <<raw, agg, lock, txn, call, col, bf, srv, last, batch>>

\* Another connection takes the write lock while main's collector stores.
MainOtherWriterBegins ==
    /\ lock = "none"
    /\ unit.op = "main"
    /\ unit.pc \in {"store_agg", "wait_agg", "wait_raw"}
    /\ lock' = "other"
    /\ UNCHANGED <<now, raw, agg, txn, call, col, bf, srv, last, batch, unit>>

\* The collector's process is asleep: in the wait for the market to
\* open, in the interval between two collections, in the pacing sleep
\* between two symbols, or in the backoff sleep before a write is retried.
InBackoff == call["col"].pc = "begin" /\ call["col"].attempt > 0

Sleeping ==
    \/ unit.op = "main" /\ unit.pc \in {"waiting", "interval"}
    \/ batch.pc = "pacing"
    \/ InBackoff

\* KeyboardInterrupt in time.sleep: it passes every except Exception on
\* its way up, a connection still open is closed by _get_connection's
\* finally, which discards what it has not committed; main's handler
\* returns 0.
Cancel ==
    /\ Sleeping
    /\ unit.op = "main"
    /\ ~unit.cancelled
    /\ unit' = [MainExit(0, "KeyboardInterrupt") EXCEPT
                   !.cancelled = TRUE,
                   !.stopped_in = IF InBackoff THEN "backoff"
                                  ELSE IF batch.pc = "pacing" THEN "pacing"
                                  ELSE unit.pc]
    /\ batch' = IF batch.pc = "off" THEN batch
                ELSE [batch EXCEPT !.pc = "cancelled"]
    /\ call' = [call EXCEPT !["col"] = IdleCall]
    /\ txn' = NoTxn
    /\ lock' = IF lock = "col" THEN "none" ELSE lock
    /\ UNCHANGED <<now, raw, agg, col, bf, srv, last>>

Main ==
    \/ MainTop
    \/ MainWoke
    \/ MainCollect
    \/ MainFetchNothing
    \/ MainCalculate
    \/ MainStoreAgg
    \/ MainStoreRaw
    \/ MainFinish
    \/ MainInterval
    \/ MainOtherWriterBegins
    \/ Cancel

\* The script started with --continuous on one symbol or on two; or a
\* caller that starts collect_multiple_symbols itself.
InitMainRun ==
    /\ now = 0
    /\ raw = InitRaw
    /\ agg = {InitAgg}
    /\ lock = "none"
    /\ txn = NoTxn
    /\ call = [p \in Procs |-> IdleCall]
    /\ col = [pc |-> "off"]
    /\ bf = [pc |-> "off"]
    /\ srv = [pc |-> "off"]
    /\ last = (AggKey(InitAgg) :> InitAgg)
    /\ \/ /\ batch = NoBatch
          /\ \E symbols \in TargetLists :
                unit = [InitMain EXCEPT !.symbols = symbols]
       \/ /\ batch = InitBatch
          /\ unit = [InitMain EXCEPT !.pc = "caller"]

NextMain == StoreWrite \/ Batch \/ OtherWriter \/ Main

SpecMain == InitMainRun /\ [][NextMain]_vars

\* ============================================================== claims
WriteKinds == {"init", "agg", "raw"}

\* The fields the two paths are compared on.
SameAggregate(a, b) ==
    /\ AggKey(a) = AggKey(b)
    /\ a.call_delta_volume = b.call_delta_volume
    /\ a.put_delta_volume = b.put_delta_volume
    /\ a.net_delta_volume = b.net_delta_volume
    /\ a.delta_ratio = b.delta_ratio
    /\ a.call_volume = b.call_volume
    /\ a.put_volume = b.put_volume
    /\ a.total_volume = b.total_volume
    /\ a.call_open_interest = b.call_open_interest
    /\ a.put_open_interest = b.put_open_interest
    /\ a.total_open_interest = b.total_open_interest
    /\ a.put_call_ratio = b.put_call_ratio
    /\ a.put_call_oi_ratio = b.put_call_oi_ratio
    /\ a.sentiment = b.sentiment
    /\ a.sentiment_strength = b.sentiment_strength
    /\ a.total_records = b.total_records

\* C1 (as claimed): whenever the backfill derives the aggregate of a
\* snapshot whose raw rows the collector stored in full, the derived row has
\* the key and the field values of the aggregate the collector wrote.
C1_PathsEquivalent ==
    \A g \in col.snap :
        ( /\ call["bf"].kind = "agg"
          /\ bf.symbol = g.symbol
          /\ bf.timestamps[bf.i] = g.raw_ts )
        => SameAggregate(call["bf"].rows[1], g.row)

\* C2: the aggregate table holds at most one row per (symbol, timestamp),
\* and that row is the payload of the upsert for the key that committed last.
C2_LastWriterWins ==
    /\ \A r \in agg : AggKey(r) \in DOMAIN last
    /\ \A k \in DOMAIN last : {r \in agg : AggKey(r) = k} = {last[k]}

C2_Witness ==
    \E p \in Procs :
        /\ call[p].pc = "returned" /\ call[p].kind = "agg"
        /\ call[p].outcome = "ok"
        /\ call[p].replaced # {}
        /\ call[p].rows[1] \notin call[p].replaced
        /\ call[p].rows[1] \in agg

\* C3: no two raw rows share the 5-tuple; a record whose 5-tuple is stored
\* leaves every stored row as it was, is counted as a duplicate, and the
\* call returns its counts instead of raising.
C3_RawUniqueDuplicateNoOp ==
    /\ \A r1, r2 \in raw : RawKey(r1) = RawKey(r2) => r1 = r2
    /\ \A p \in Procs :
          (call[p].kind = "raw" /\ call[p].pc = "commit") =>
            LET recs == call[p].rows
                dups == {i \in 1..Len(recs) :
                           \E r \in raw : RawKey(r) = RawKey(recs[i])}
            IN  /\ raw \subseteq txn.raw
                /\ txn.raw \ raw =
                      {recs[i] : i \in (1..Len(recs)) \ dups}
                /\ call[p].duplicates = Cardinality(dups)
                /\ call[p].inserted = Len(recs) - Cardinality(dups)
    /\ \A p \in Procs :
          ( /\ call[p].kind = "raw" /\ call[p].pc = "returned"
            /\ call[p].outcome = "ok" ) =>
            /\ ~call[p].api.raised
            /\ call[p].api.value = <<call[p].inserted, call[p].duplicates>>

C3_Witness ==
    \E p \in Procs :
        /\ call[p].kind = "raw" /\ call[p].pc = "returned"
        /\ call[p].duplicates > 0
        /\ ~call[p].api.raised

ColOver == col.pc = "crashed" \/ (col.pc = "idle" /\ col.cycle = MaxCycles)
BfOver == bf.pc = "done"

ColRowsAsAlone ==
    /\ RowsOf(raw, col.symbol) = col.alone.raw
    /\ RowsOf(agg, col.symbol) = col.alone.agg

BfRowsAsAlone ==
    /\ RowsOf(raw, bf.symbol) = RowsOf(InitRaw, bf.symbol)
    /\ RowsOf(agg, bf.symbol) = bf.alone

C6_TransientLockSurvived ==
    \A p \in Procs :
        /\ call[p].commits <= 1
        /\ ( /\ call[p].kind \in WriteKinds /\ call[p].pc = "returned"
              /\ call[p].lock_errors < max_retries ) =>
                /\ call[p].outcome = "ok"
                /\ call[p].commits = 1
                /\ ~call[p].api.raised
                /\ call[p].kind = "agg" => call[p].api.value = <<TRUE>>
                /\ call[p].kind = "raw" =>
                      call[p].api.value =
                          <<call[p].inserted, call[p].duplicates>>

C6_Witness ==
    \E p \in Procs :
        /\ call[p].kind \in {"agg", "raw"} /\ call[p].pc = "returned"
        /\ call[p].lock_errors > 0
        /\ call[p].outcome = "ok" /\ call[p].commits = 1

\* C7: a store call makes at most max_retries attempts, each further attempt
\* follows one lock error, and the sleeps before them are 100 ms, 200 ms, ...
C7_BoundedBackoff ==
    \A p \in Procs :
        /\ call[p].attempt <= max_retries - 1
        /\ call[p].lock_errors <= max_retries
        /\ call[p].attempt =
              IF call[p].outcome = "lock_error"
              THEN call[p].lock_errors - 1 ELSE call[p].lock_errors
        /\ Len(call[p].slept) = call[p].attempt
        /\ call[p].slept = SubSeq(<<100, 200, 400>>, 1, call[p].attempt)

C7_Witness ==
    /\ \E p \in Procs :
          /\ call[p].kind \in WriteKinds /\ call[p].pc = "returned"
          /\ call[p].slept = <<100, 200>>
          /\ call[p].lock_errors = max_retries
          /\ call[p].outcome = "lock_error"
    /\ \E p \in Procs :
          /\ call[p].kind = "read" /\ call[p].pc = "returned"
          /\ call[p].slept = <<100>>
          /\ call[p].outcome = "ok"

\* C8 (as claimed): a write that met the lock on all its attempts hands the
\* lock error to its caller, and leaves the store as it was.
C8_LockErrorSurfaces ==
    \A p \in Procs :
        ( /\ call[p].kind \in {"agg", "raw"} /\ call[p].pc = "returned"
          /\ call[p].outcome = "lock_error" ) =>
            /\ call[p].api.raised
            /\ call[p].api.error = LockError
            /\ call[p].commits = 0

\* C9 (as claimed): a request of the serving route never asks for the
\* store's write lock.
C9_ServingNeverWrites ==
    /\ call["srv"].kind \notin WriteKinds
    /\ lock # "srv"

\* C10: every committed raw row stays in the raw table, unchanged.
C10_RawAppendOnly == [][\A r \in raw : r \in raw']_vars

C10_Witness ==
    /\ col.status = "success" /\ ColOver
    /\ BfOver /\ bf.successful > 0
    /\ InitRaw \subseteq raw /\ raw # InitRaw

\* The fields the fingerprint is said to track.
TrackedFields == QuoteFields

\* C11 (as claimed): a call answers "store" exactly when the identity is new
\* or a tracked field differs from the previous call's for that identity;
\* a "store" records the new fingerprint, a "skip" leaves the cache alone.
C11_StoreIffChanged ==
    (unit.op = "cache" /\ unit.did = "should_store") =>
        /\ unit.result <=>
              ( \/ ~unit.seen
                \/ \E f \in TrackedFields :
                       unit.quote[f] # unit.previous[f] )
        /\ unit.result => unit.cache[unit.key] # LastHash(unit.before, unit.key)
        /\ ~unit.result => unit.cache = unit.before

\* C12: the aggregate process_symbol builds from a document is the same for
\* every prior cache and for either setting of store_raw_data; the cache
\* decides the raw records only.
C12_CacheNeverInfluencesAggregate ==
    (unit.op = "cache" /\ unit.did = "process") =>
        /\ unit.row =
              CollectorAggregation("A", 0,
                  CalculateFlowMetrics("A", unit.doc, TRUE, <<>>, 0))
        /\ unit.row =
              CollectorAggregation("A", 0,
                  CalculateFlowMetrics("A", unit.doc, FALSE, <<>>, 0))
        /\ \A i \in 1..Len(unit.records) :
              /\ unit.enabled
              /\ \E c \in Contracts :
                    /\ unit.records[i] =
                          CreateOptionRecord("A", 0, c, unit.doc.opts[c],
                                             unit.doc.underlying)
                    /\ LastHash(unit.before, OptionKey("A", c))
                          # GetOptionHash("A", c, unit.doc.opts[c])

C12_Witness ==
    /\ unit.op = "cache" /\ unit.did = "process"
    /\ unit.enabled
    /\ unit.before # <<>>
    /\ Len(unit.records) = 1
    /\ unit.row.total_records = 2
    /\ unit.row.total_volume > 0

\* C13: a fetch that raises gives that symbol a result of status "error"
\* with the message and writes nothing for it; it never ends the batch; and
\* what the batch returns has one result per symbol of the list, in order.
C13_FetchFailureDoesNotAbort ==
    /\ batch.pc = "raised" => batch.fetch = "success"
    /\ batch.pc \in {"next", "returned"} =>
          /\ Len(batch.results) = batch.i - 1
          /\ \A j \in 1..Len(batch.results) :
                batch.results[j].symbol = Watchlist[j]
    /\ batch.pc = "returned" => Len(batch.results) = Len(Watchlist)
    /\ \A j \in 1..Len(batch.results) :
          batch.results[j].status = "error" =>
            /\ batch.results[j].message = FetchError
            /\ ~batch.results[j].aggregation_stored
            /\ batch.results[j].raw_records_stored = 0
            /\ j \notin DOMAIN batch.computed
            /\ RowsOf(raw, Watchlist[j]) = RowsOf(InitRaw, Watchlist[j])
            /\ RowsOf(agg, Watchlist[j]) = RowsOf({InitAgg}, Watchlist[j])

C13_Witness ==
    /\ batch.pc = "returned"
    /\ batch.results[1].status = "error"
    /\ batch.results[2].status = "success"
    /\ batch.results[2].aggregation_stored
    /\ batch.computed[2] \in agg

\* C14 (as claimed): a failure of one symbol after its fetch succeeded never
\* ends the batch: collect_multiple_symbols does not raise.
C14_LocalFailureDoesNotAbort == batch.pc # "raised"

\* C15 (as claimed): every result of status "success" stands for an
\* aggregate that is committed, and says so.
C15_SuccessIsCommitted ==
    \A j \in 1..Len(batch.results) :
        batch.results[j].status = "success" =>
            /\ batch.results[j].aggregation_stored
            /\ batch.computed[j] \in agg

BfNoFailure == bf.failed = 0 /\ ~bf.failed_run

\* C16: after a run that is not a dry run and in which nothing failed,
\* every raw timestamp of the symbol that had no aggregate before the run
\* has one, whatever other timestamps were aggregated already.
C16_CoversEveryMissingTimestamp ==
    (bf.pc = "done" /\ ~bf.dry_run /\ BfNoFailure)
        => \A t \in bf.missing :
              \E g \in agg : g.symbol = bf.symbol /\ g.timestamp = t

\* C17: a second run over the same symbol, with no raw row written since
\* the first, ends with the aggregate table as the first run left it, and
\* with no error and no failure.
C17_RerunChangesNothing ==
    (bf.pc = "done" /\ bf.run > 1)
        => /\ agg = bf.before
           /\ BfNoFailure

\* A second run of the driver without the skip ended after it aggregated a
\* timestamp again, over the row the first run had written.
C17_Witness ==
    /\ bf.pc = "done"
    /\ bf.run = 2
    /\ ~bf.skip_existing
    /\ bf.successful > 0
    /\ bf.before # {}
    /\ agg = bf.before

\* C18: a run in which the aggregation of a timestamp failed ends with an
\* exit code that is not 0.
C18_ExitCodeReflectsFailures ==
    (bf.pc = "done" /\ bf.failed > 0) => bf.exit # 0

\* C19: no step of a dry run changes the raw table or the aggregate table.
C19_DryRunWritesNothing ==
    [][bf'.dry_run => (raw' = raw /\ agg' = agg)]_vars

\* A dry run ended over raw timestamps that lack their aggregate, and
\* they lack it still.
C19_Witness ==
    /\ bf.pc = "done"
    /\ bf.dry_run
    /\ bf.missing # {}
    /\ bf.missing = MissingTimestamps(raw, agg, bf.symbol)

WellFormed(rec) == Bindable(rec) /\ ~NotNullViolated(rec)

\* The records of the batch that have a 5-tuple key, and whose key was in
\* the table or in an earlier record of the batch.
KeyAlreadyPresent(table, recs) ==
    {i \in DOMAIN recs :
        /\ WellFormed(recs[i])
        /\ \/ \E r \in table : RawKey(r) = RawKey(recs[i])
           \/ \E j \in 1..(i - 1) : RawKey(recs[j]) = RawKey(recs[i])}

\* C20: insert_options_data returns the number of rows added and the
\* number of records whose key was already present; a record that fails
\* for another reason is in neither count, and the records after it are
\* inserted all the same.
C20_CountsAndIsolation ==
    unit.did
        => /\ unit.inserted = Cardinality(raw) - Cardinality(unit.before)
           /\ unit.duplicates =
                 Cardinality(KeyAlreadyPresent(unit.before, unit.records))
           /\ \A i \in DOMAIN unit.records :
                 WellFormed(unit.records[i])
                    => \E r \in raw : RawKey(r) = RawKey(unit.records[i])

\* The ratios of the result the unit holds.
RatiosOf(result) ==
    {result.delta_ratio, result.put_call_ratio, result.sentiment_strength}
    \cup (IF "put_call_oi_ratio" \in DOMAIN result
          THEN {result.put_call_oi_ratio} ELSE {})

\* The running sums behind the result the unit holds.
UnitSums ==
    IF unit.did = "chain"
    THEN CalculateOptionMetrics("A", unit.doc, FALSE, <<>>, 0)
    ELSE FlowSums(unit.rows)

\* C21: neither flow computation divides by zero; a ratio whose
\* denominator is zero is the infinity sentinel.
C21_ZeroDivisionSafety ==
    (unit.op = "flow" /\ unit.did \in {"rows", "chain"}) =>
        /\ ZeroDivisionError \notin RatiosOf(unit.result)
        /\ UnitSums.put_dv4 = 0 => unit.result.delta_ratio = Infinity
        /\ UnitSums.call_vol = 0 => unit.result.put_call_ratio = Infinity
        /\ (unit.did = "rows" /\ UnitSums.call_oi = 0)
              => unit.result.put_call_oi_ratio = Infinity

\* Stored rows with a call that counts and no put that does: the ratio of
\* the delta volumes is the sentinel.
C21_Witness ==
    /\ unit.op = "flow" /\ unit.did = "rows"
    /\ UnitSums.call_dv4 > 0
    /\ UnitSums.put_dv4 = 0
    /\ UnitSums.call_oi = 0
    /\ unit.result.delta_ratio = Infinity
    /\ unit.result.put_call_oi_ratio = Infinity

\* The No-Data result: every number zero, the label, the flag.
IsNoData(result) ==
    /\ \A f \in {"call_delta_volume", "put_delta_volume", "net_delta_volume",
                  "delta_ratio", "put_call_ratio", "sentiment_strength"} :
          result[f] = Zero
    /\ \A f \in {"call_volume", "put_volume", "total_volume",
                  "total_records"} : result[f] = 0
    /\ result.sentiment = "No Data"
    /\ "data_available" \in DOMAIN result
    /\ ~result.data_available

\* C22 (as claimed): a snapshot without contract records, read from the
\* store or fetched as a document, gives the No-Data result.
C22_EmptySnapshotIsNoData ==
    ( /\ unit.op = "flow"
      /\ \/ unit.did = "current" /\ unit.rows = {}
         \/ unit.did = "chain" /\ DOMAIN unit.doc.opts = {} )
        => IsNoData(unit.result)

\* The rows a query is about.
Matching ==
    {r \in agg : /\ r.symbol = unit.symbol
                 /\ r.timestamp >= unit.start
                 /\ r.timestamp <= unit.end}

Min(a, b) == IF a < b THEN a ELSE b

\* C23 (as claimed): the rows of the symbol within the range, newest first,
\* and only the limit newest of them when a limit is given.
C23_AggregateQueryResult ==
    (unit.op = "query" /\ unit.did) =>
        LET res == unit.result
        IN  /\ \A i \in DOMAIN res : res[i] \in Matching
            /\ \A i, j \in DOMAIN res :
                  i < j => res[i].timestamp > res[j].timestamp
            /\ \A i \in DOMAIN res : \A r \in Matching :
                  r.timestamp > res[i].timestamp
                     => \E j \in DOMAIN res : res[j] = r
            /\ Len(res) = IF unit.limit = NoLimit
                          THEN Cardinality(Matching)
                          ELSE Min(unit.limit[1], Cardinality(Matching))

\* C24: the calculation handed the same records again returns the same
\* aggregate fields, whatever the cache holds by then and whatever is in the
\* store, and leaves the store as it was.
C24_CalculatorIsDeterministic ==
    unit.op = "flow" =>
        /\ unit.again =>
              IF unit.did = "chain"
              THEN Aggregate(unit.result) = Aggregate(unit.previous)
              ELSE unit.result = unit.previous
        /\ \/ raw = {} /\ agg = {}
           \/ raw = InitRaw /\ agg = {InitAgg}

\* A document processed twice by one collector: the second pass finds every
\* contract in the cache and keeps no raw record, the first kept some, and
\* the sums are those of the first pass.
C24_Witness ==
    /\ unit.op = "flow" /\ unit.did = "chain" /\ unit.again
    /\ unit.previous.raw_records # <<>>
    /\ unit.result.raw_records = <<>>
    /\ unit.result.total_volume > 0
    /\ raw = InitRaw

\* The sums as the claim words them: over the records of one type with a
\* volume above 0 and a delta that is not null.
ClaimedRows(rows, type) ==
    {r \in rows : /\ r.option_type = type
                  /\ "total_volume" \notin r.null /\ r.total_volume > 0
                  /\ "delta4" \notin r.null}

ClaimedVolume(rows, type) ==
    SumF([r \in rows |-> r.total_volume], ClaimedRows(rows, type))

ClaimedDeltaVolume4(rows, type) ==
    SumF([r \in rows |->
            (IF type = "PUT" THEN Abs(r.delta4) ELSE r.delta4)
                * r.total_volume],
         ClaimedRows(rows, type))

ClaimedOpenInterest(rows, type) ==
    SumF([r \in rows |->
            IF "open_interest" \in r.null THEN 0 ELSE r.open_interest],
         {r \in rows : r.option_type = type})

\* C25 (as claimed): the volumes and delta volumes returned are the sums
\* over the records with volume above 0 and a delta that is not null, the
\* open interests the sums over all records.
C25_FlowSums ==
    (unit.op = "flow" /\ unit.did = "rows") =>
        /\ unit.result.call_volume = ClaimedVolume(unit.rows, "CALL")
        /\ unit.result.put_volume = ClaimedVolume(unit.rows, "PUT")
        /\ unit.result.call_delta_volume =
              Frac(ClaimedDeltaVolume4(unit.rows, "CALL"), 4)
        /\ unit.result.put_delta_volume =
              Frac(ClaimedDeltaVolume4(unit.rows, "PUT"), 4)
        /\ unit.result.call_open_interest =
              ClaimedOpenInterest(unit.rows, "CALL")
        /\ unit.result.put_open_interest =
              ClaimedOpenInterest(unit.rows, "PUT")

\* a - b for two finite numbers
Minus(a, b) == Frac(a.n * b.d - b.n * a.d, a.d * b.d)

\* C26 (as claimed): every stored aggregate row has net_delta_volume =
\* call_delta_volume - put_delta_volume and total_volume = call_volume +
\* put_volume on its stored values.
C26_NetIsCallMinusPut ==
    \A r \in agg :
        /\ r.net_delta_volume =
              Minus(r.call_delta_volume, r.put_delta_volume)
        /\ r.total_volume = r.call_volume + r.put_volume

\* C27 (as claimed): every stored aggregate row is "Bullish" exactly when
\* its stored net_delta_volume is above 0, and "Bearish" otherwise.
C27_SentimentAgreesWithStoredNet ==
    \A r \in agg :
        r.sentiment =
            IF r.net_delta_volume.n > 0 THEN "Bullish" ELSE "Bearish"

\* C28: when the operation inside the write transaction has raised, at the
\* moment the error is with the caller or the retry is about to begin, both
\* tables are as they were before the call, no transaction is open, the
\* write lock is free and the connection is closed.
C28_RollbackOnFailure ==
    LET c == call["col"]
    IN  (/\ unit.op = "write"
         /\ \/ c.pc = "returned" /\ c.outcome # "ok"
            \/ c.pc = "begin" /\ c.attempt > 0) =>
            /\ raw = unit.before.raw
            /\ agg = unit.before.agg
            /\ txn = NoTxn
            /\ lock = "none"
            /\ c.write_conn = "closed"

\* An operation that had inserted a record raised on the retry as well.
C28_Witness ==
    /\ unit.op = "write"
    /\ call["col"].pc = "returned"
    /\ call["col"].kind = "raises"
    /\ call["col"].api.raised
    /\ call["col"].attempt > 0
    /\ call["col"].inserted > 0

\* The records of the raw insert the collector is in.
SignalledRecords ==
    {call["col"].rows[i] : i \in 1..Len(call["col"].rows)}

\* C29 (as claimed): once a chain was fetched for a symbol, its processing
\* does not end without an aggregate upsert having been attempted, and when
\* its raw insert is over the rows it added to the table are exactly the
\* records of the contracts the cache signalled as changed.
C29_AggregateAlwaysRawOnChange ==
    /\ (batch.pc = "raised" /\ batch.fetch = "success") =>
          batch.i \in DOMAIN batch.computed
    /\ (/\ batch.pc = "wait_raw"
        /\ call["col"].pc = "returned") =>
          /\ SignalledRecords \subseteq raw
          /\ {r \in raw \ InitRaw : r.symbol = BatchSymbol}
                \subseteq SignalledRecords

\* C30 (as claimed): a symbol for which the upstream gave no document, or
\* a document with no contract, gets the status no_data, and no aggregate
\* row and no raw row is written for it.
C30_EmptyChainIsNoData ==
    /\ \A i \in 1..Len(batch.results) :
          batch.results[i].status = "no_data" =>
              /\ i \notin DOMAIN batch.computed
              /\ ~batch.results[i].aggregation_stored
              /\ batch.results[i].raw_records_stored = 0
    /\ \A i \in DOMAIN batch.computed : batch.computed[i].total_records > 0
    /\ \A r \in agg : r.total_records > 0

\* The step in which a symbol out of its trading hours gets its result.
SkipsSymbol ==
    /\ Len(batch'.results) = Len(batch.results) + 1
    /\ batch'.results[Len(batch'.results)].status = "skipped_hours"

\* C31: the step that skips a symbol out of its trading hours issues no
\* fetch, spends no pacing sleep, leaves the cache and both tables as they
\* were, and records aggregation_stored false and raw_records_stored 0.
C31_IneligibleSymbolsUntouched ==
    [][SkipsSymbol =>
          /\ batch'.fetches = batch.fetches
          /\ batch'.sleeps = batch.sleeps
          /\ batch'.cache = batch.cache
          /\ raw' = raw /\ agg' = agg
          /\ call' = call
          /\ ~batch'.results[Len(batch'.results)].aggregation_stored
          /\ batch'.results[Len(batch'.results)].raw_records_stored = 0]_vars

\* The second symbol was skipped after the first was collected and stored.
C31_Witness ==
    /\ Len(batch.results) = 2
    /\ batch.results[1].status = "success"
    /\ batch.results[1].raw_records_stored > 0
    /\ batch.results[2].status = "skipped_hours"
    /\ batch.fetches = 1
    /\ batch.sleeps = 0
    /\ batch.cache # <<>>

\* Monday to Friday, from opening to closing time on the clock, both
\* included; closing time is 16:15 for SPY and QQQ.
InWindow(symbol, t) ==
    /\ Weekday(t) <= 4
    /\ At(0, 9, 30, 0) <= TimeOfDay(t)
    /\ TimeOfDay(t) <= IF Upper(symbol) \in ExtendedSymbols
                        THEN At(0, 16, 15, 0) ELSE At(0, 16, 0, 0)

\* C32 (as claimed): is_trading_time(symbol) is true exactly from Monday to
\* Friday with 09:30 <= time <= 16:00, or 16:15 for SPY and QQQ; so when a
\* symbol off the list is eligible SPY and QQQ are too, and on weekends none
\* is.
C32_TradingHoursEligibility ==
    (unit.op = "hours" /\ unit.did = "checked") =>
        /\ \A i \in 1..Len(unit.symbols) :
              unit.trading[i] <=> InWindow(unit.symbols[i], unit.clock)
        /\ (\E i \in 1..Len(unit.symbols) : unit.trading[i]) =>
              /\ IsTradingTime("SPY", unit.clock)
              /\ IsTradingTime("QQQ", unit.clock)
        /\ Weekday(unit.clock) >= 5 =>
              \A i \in 1..Len(unit.symbols) : ~unit.trading[i]

\* C33 (as claimed): the wait is above 0, a target symbol is eligible at
\* the instant the sleep ends, and none is at an instant inside the wait.
C33_WaitUntilNextWindow ==
    (unit.op = "hours" /\ unit.did = "waited") =>
        /\ unit.wait_seconds > 0
        /\ AnyTrading(unit.symbols, unit.woke)
        /\ \A u \in Instants, k \in 0..1 :
              (unit.clock < u + Days(7 * k) /\ u + Days(7 * k) < unit.woke)
                  => ~AnyTrading(unit.symbols, u + Days(7 * k))

\* C34: in continuous mode with two or more target symbols the loop ends
\* only on the cancellation signal.
C34_LoopEndsOnlyOnCancel ==
    (unit.op = "main" /\ Len(unit.symbols) >= 2 /\ unit.pc = "exited")
        => unit.cancelled

\* C35: at every sleep point of the collector the process holds no open
\* store transaction, no open write connection and no write lock, and a
\* stop signal delivered there ends the run with the committed rows as
\* they were.
Stopped == unit'.cancelled /\ ~unit.cancelled

C35_CancellationLeavesConsistentStore ==
    /\ [](Sleeping => /\ lock # "col"
                      /\ txn = NoTxn
                      /\ call["col"].write_conn = "closed")
    /\ [][Stopped => /\ raw' = raw
                     /\ agg' = agg
                     /\ lock' # "col"
                     /\ txn' = NoTxn
                     /\ unit'.pc = "exited"]_vars

\* A stop signal arrives in the backoff sleep of a store retry, after an
\* earlier write of the run was committed.
C35_Witness ==
    /\ unit.cancelled
    /\ unit.stopped_in = "backoff"
    /\ raw # InitRaw
    /\ lock = "other"

\* C36: process_symbol_date attempts every timestamp of its list exactly
\* once and in order, whatever became of the earlier ones, and returns
\* successful + failed equal to the number of timestamps, successful being
\* the number of aggregate upserts that committed.
InLoop == bf.pc \in {"next", "wait_agg"}

C36_BackfillFailureIsolation ==
    /\ [](InLoop => /\ bf.i \in 1..Len(bf.timestamps)
                    /\ bf.successful + bf.failed = bf.i - 1)
    /\ []((bf.pc \in {"summary", "done"} /\ bf.timestamps # <<>>)
            => bf.successful + bf.failed = Len(bf.timestamps))
    /\ [][(InLoop /\ bf'.pc = "wait_agg" /\ bf.pc = "next")
            => /\ bf'.i = bf.i
               /\ call'["bf"].rows[1].timestamp = bf.timestamps[bf.i]]_vars
    /\ [][(InLoop /\ bf'.i # bf.i)
            => /\ bf'.i = bf.i + 1
               /\ bf'.successful - bf.successful = call["bf"].commits
               /\ bf'.failed - bf.failed = 1 - call["bf"].commits]_vars

\* The first of two timestamps failed on the lock, the second one was
\* stored.
C36_Witness ==
    /\ bf.pc = "done"
    /\ Len(bf.timestamps) = 2
    /\ bf.failed = 1
    /\ bf.successful = 1
    /\ \E r \in agg : /\ r.timestamp = bf.timestamps[2]
                       /\ r \notin bf.before
                       /\ ~\E q \in agg : q.timestamp = bf.timestamps[1]

\* C37: between two cycles a fingerprint is in the cache only for a
\* contract state whose raw row is committed, or was found to be a
\* duplicate; and the contracts of a raw batch that was not committed are
\* signalled again by the next cycle that finds them unchanged.
Observed(c, doc, t) ==
    CreateOptionRecord(col.symbol, t, c, doc.opts[c], doc.underlying)

Backed(k) ==
    \E doc \in Chains : \E c \in DOMAIN doc.opts :
        /\ OptionKey(col.symbol, c) = k
        /\ GetOptionHash(col.symbol, c, doc.opts[c]) = col.cache[k]
        /\ \/ \E t \in Times : Observed(c, doc, t) \in raw
           \/ \E r \in raw : RawKey(r) = RawKey(Observed(c, doc, col.raw_ts))

SignalledAgain ==
    \A doc \in Chains :
        col'.m = CalculateFlowMetrics(col.symbol, doc, col.enabled,
                                      col.cache, now)
        => \A c \in DOMAIN doc.opts, r \in unit.lost :
              (r = Observed(c, doc, r.timestamp) /\ r \notin raw)
                  => \E i \in DOMAIN col'.m.raw_records :
                        col'.m.raw_records[i] = Observed(c, doc, now)

C37_CacheNeverAheadOfStore ==
    /\ [](col.pc \in {"idle", "crashed"}
            => \A k \in DOMAIN col.cache : Backed(k))
    /\ [][(col.pc = "idle" /\ col'.pc = "store_agg") => SignalledAgain]_vars

\* C38: the aggregate row and the raw rows of one collector cycle carry the
\* same timestamp, so the raw rows are found under the aggregate's key and
\* a backfill of the snapshot upserts that same aggregate row.
RawRowsUnder(symbol, timestamp) ==
    {r \in raw : r.symbol = symbol /\ r.timestamp = timestamp}

AggregatesOf(s) ==
    {a \in agg : /\ a.symbol = s.symbol
                 /\ a.timestamp \in {s.raw_ts, s.row.timestamp}}

C38_OneTimestampPerSnapshot ==
    \A s \in col.snap :
        /\ s.row.timestamp = s.raw_ts
        /\ RawRowsUnder(s.symbol, s.row.timestamp) # {}
        /\ Cardinality(AggregatesOf(s)) <= 1

====
